---- MODULE Spec2Model ----
(***************************************************************************)
(* paper-reader: the highlight / pending-highlight / chat-turn core.       *)
(*                                                                         *)
(*   - the store behind /api/highlights (GET, POST, PUT, DELETE) and       *)
(*     /api/chat (POST), as the route handlers use it;                     *)
(*   - the page component (app/page.tsx): selection, identity resolution,  *)
(*     pending highlight, promotion, delete / undo, list refresh, the      *)
(*     reader loop of handleSendMessage;                                   *)
(*   - the chat panel (components/ChatOverlay.tsx): handleSend, the        *)
(*     message list and its sync effect.                                   *)
(*                                                                         *)
(* Texts that travel on the wire are sequences of one-character strings,   *)
(* so that framing, JSON encoding and chunk boundaries are computed.       *)
(* Ids are positive integers (NoId is the null id); an optional record is  *)
(* a sequence of length 0 or 1.                                            *)
(***************************************************************************)
EXTENDS Integers, Sequences, FiniteSets, TLC

\* ------------------------------------------------------------------ bounds
MaxHighlights == 2      \* highlight ids the store hands out
MaxTurns      == 2      \* turns the store holds messages of
MaxDeltas     == 2      \* text chunks the provider yields in one turn
MaxFrames     == 2      \* text-delta frames of a response read from the start
MaxInFlight   == 1      \* client requests (list, delete, restore, send) in flight at once
MaxMessages   == 4      \* messages the chat panel shows

\* ------------------------------------------------------------ value spaces
NoId  == 0
NoPdf == "none"
Pdfs  == {"p1", "p2"}
Pages == {1, 2}
\* "A" is a proper substring of "AB"
Texts == {"A", "AB"}
ProperSubstring(s, t) == s = "A" /\ t = "AB"
\* what the user selects: the text of the stored highlight on its page, a
\* superstring of it on that page, the same text on another page
Selections == {<<"A", 1>>, <<"AB", 1>>, <<"A", 2>>}

None    == <<>>
Some(x) == <<x>>
IsSome(o) == o # <<>>
The(o)  == o[1]

VARIABLES
    \* the store (lib/db)
    dbHighlights, dbConversations, dbMessages, nextH, nextC, nextM,
    \* app/page.tsx state
    pdfs, selectedPdf, highlights, selectedText, selectionRanges, showPopup,
    showChat, currentHighlightId, currentConversationId, pendingHighlight,
    deletedHighlight, error,
    \* the shortcut prompt waiting to be sent (page.tsx 77), None for null
    initialPrompt,
    \* history: the selection <<text, page>> a number key was pressed for, while
    \* the prompt of that key has not been sent
    keyedSelection,
    \* components/ChatOverlay.tsx state
    messages, isStreaming, prevConversationIdRef, initialPromptSentRef,
    isUserScrolledUp, showNewMessageButton, wasStreamingRef,
    \* the scroll position of the message container (its scrollTop, in px)
    scrollTop,
    \* the viewer (part_005): the zoom in tenths, and the rectangle of the
    \* selection relative to its page (px) when text was selected
    scale, selectionRect,
    \* requests in flight
    fetches, del, undo, send,
    \* app/api/chat/route.ts: the request being handled, the response body
    chat, wire, wireEnd, geminiApiKey

dbVars     == <<dbHighlights, dbConversations, dbMessages, nextH, nextC, nextM>>
viewerVars == <<scale, selectionRect>>
homeVars   == <<viewerVars, pdfs, selectedPdf, highlights, selectedText, selectionRanges, showPopup,
                showChat, currentHighlightId, currentConversationId,
                pendingHighlight, deletedHighlight, error>>
promptVars == <<initialPrompt, keyedSelection>>
pageVars   == <<homeVars, promptVars>>
scrollVars == <<isUserScrolledUp, showNewMessageButton, wasStreamingRef, scrollTop>>
panelVars  == <<messages, isStreaming, prevConversationIdRef, initialPromptSentRef,
                scrollVars>>
flightVars == <<fetches, del, undo, send>>
srvVars    == <<chat, wire, wireEnd, geminiApiKey>>
vars       == <<dbVars, pageVars, panelVars, flightVars, srvVars>>

\* ------------------------------------------------------------------- store
\* createdAt @default(now()) is only compared between rows of one table
\* (orderBy createdAt asc): it is the position of the row in its table's history

RECURSIVE OrderByCreatedAt(_)
OrderByCreatedAt(S) ==
    IF S = {} THEN <<>>
    ELSE LET m == CHOOSE x \in S : \A y \in S : x.createdAt <= y.createdAt
         IN  <<m>> \o OrderByCreatedAt(S \ {m})

\* include: { conversation: { include: { messages: { orderBy: createdAt asc } } } }
IncludeConversation(h, convs, msgs) ==
    LET cs == {c \in convs : c.highlightId = h.id}
    IN  [id |-> h.id, pdfId |-> h.pdfId, pageNumber |-> h.pageNumber,
         selectedText |-> h.selectedText, createdAt |-> h.createdAt,
         conversation |->
            IF cs = {} THEN None
            ELSE LET c == CHOOSE x \in cs : TRUE
                 IN  Some([id |-> c.id, highlightId |-> c.highlightId,
                           createdAt |-> c.createdAt,
                           messages |-> OrderByCreatedAt(
                               {m \in msgs : m.conversationId = c.id})])]

\* db.highlight.findMany({ where: { pdfId }, ..., orderBy: { createdAt: 'asc' } })
FindManyByPdf(pdfId) ==
    OrderByCreatedAt({IncludeConversation(h, dbConversations, dbMessages) :
                        h \in {x \in dbHighlights : x.pdfId = pdfId}})

\* db.highlight.findUnique({ where: { id }, include ... })
FindUniqueHighlight(id) ==
    LET hs == {h \in dbHighlights : h.id = id}
    IN  IF hs = {} THEN None
        ELSE Some(IncludeConversation(CHOOSE h \in hs : TRUE,
                                      dbConversations, dbMessages))

\* onDelete: Cascade from highlight to conversation to messages
CascadeConversations(id) == {c \in dbConversations : c.highlightId # id}
\* a delete whose cascade stops at the conversations
CascadeMessagesKeeps(id) == dbMessages

CascadeMessages(id) ==
    {m \in dbMessages :
        \A c \in dbConversations : c.highlightId = id => m.conversationId # c.id}

\* the highlight recreated without the createdAt of the snapshot
RestoredHighlightNow(t) ==
    [id |-> t.id, pdfId |-> t.pdfId, pageNumber |-> t.pageNumber,
     selectedText |-> t.selectedText, createdAt |-> nextH]

\* PUT /api/highlights: the rows recreated from the snapshot sent by the client
RestoredHighlight(t) ==
    [id |-> t.id, pdfId |-> t.pdfId, pageNumber |-> t.pageNumber,
     selectedText |-> t.selectedText, createdAt |-> t.createdAt]
RestoredConversations(t) ==
    IF IsSome(t.conversation)
    THEN {[id |-> The(t.conversation).id, highlightId |-> t.id,
           createdAt |-> The(t.conversation).createdAt]}
    ELSE {}
RestoredMessages(t) ==
    IF IsSome(t.conversation)
    THEN {[id |-> m.id, conversationId |-> The(t.conversation).id, role |-> m.role,
           content |-> m.content, createdAt |-> m.createdAt] :
            m \in {The(t.conversation).messages[i] :
                     i \in 1..Len(The(t.conversation).messages)}}
    ELSE {}

\* ------------------------------------------------------------ app/page.tsx
\* the find with the page left out of the comparison
ResolveAnyPage(text, page, list) ==
    LET hits == {i \in 1..Len(list) : list[i].selectedText = text}
    IN  IF hits = {} THEN 0 ELSE CHOOSE i \in hits : \A j \in hits : i <= j

\* highlights.find(h => h.selectedText === selectedText &&
\*                      h.pageNumber === selectionRanges.page): index or 0
Resolve(text, page, list) ==
    LET hits == {i \in 1..Len(list) :
                    list[i].selectedText = text /\ list[i].pageNumber = page}
    IN  IF hits = {} THEN 0 ELSE CHOOSE i \in hits : \A j \in hits : i <= j

\* highlights.find(h => h.id === id): index or 0
FindById(id, list) ==
    LET hits == {i \in 1..Len(list) : list[i].id = id}
    IN  IF hits = {} THEN 0 ELSE CHOOSE i \in hits : \A j \in hits : i <= j

ConversationIdOf(h) == IF IsSome(h.conversation) THEN The(h.conversation).id ELSE NoId

\* prev.filter(h => h.id !== id)
RECURSIVE FilterOut(_, _)
FilterOut(list, id) ==
    IF list = <<>> THEN <<>>
    ELSE (IF Head(list).id = id THEN <<>> ELSE <<Head(list)>>)
         \o FilterOut(Tail(list), id)

\* currentMessages (useMemo over highlights, currentHighlightId)
CurrentMessages(list, cur) ==
    IF cur = NoId THEN <<>>
    ELSE LET i == FindById(cur, list)
         IN  IF i = 0 THEN <<>>
             ELSE IF ~IsSome(list[i].conversation) THEN <<>>
             ELSE LET ms == The(list[i].conversation).messages
                  IN  [k \in 1..Len(ms) |->
                         [id |-> ms[k].id, role |-> ms[k].role,
                          content |-> ms[k].content]]

\* ------------------------------------------- components/ChatOverlay.tsx
HasUnsaved(ms) == \E k \in 1..Len(ms) : ms[k].id = NoId
Complete(ms)   == Len(ms) > 0 /\ \A k \in 1..Len(ms) : ms[k].id # NoId

\* the effect on [initialMessages, conversationId, isStreaming]:
\* the message list and prevConversationIdRef it leaves
SyncEffect(ms, ref, conv, init, streaming) ==
    IF ref # conv
    THEN IF ~streaming /\ ~HasUnsaved(ms)
            THEN [messages |-> init, ref |-> conv]
         ELSE IF Complete(init) /\ ~streaming
            THEN [messages |-> init, ref |-> conv]
         ELSE IF streaming /\ ~Complete(init)
            THEN [messages |-> ms, ref |-> conv]
         ELSE [messages |-> ms, ref |-> ref]
    ELSE IF Len(ms) = 0 /\ Len(init) > 0 /\ ~streaming
            THEN [messages |-> init, ref |-> ref]
    ELSE IF Complete(init) /\ ~streaming
            THEN IF HasUnsaved(ms) \/ Len(init) >= Len(ms)
                 THEN [messages |-> init, ref |-> ref]
                 ELSE [messages |-> ms, ref |-> ref]
    ELSE [messages |-> ms, ref |-> ref]

\* whether that effect sets initialPromptSentRef.current = false (79, 85, 94)
SyncResets(ms, ref, conv, init, streaming) ==
    IF ref # conv
    THEN (~streaming /\ ~HasUnsaved(ms)) \/ (Complete(init) /\ ~streaming)
    ELSE Len(ms) = 0 /\ Len(init) > 0 /\ ~streaming

\* the panel after a render in which the page holds list / cur / conv
Rendered(ms, ref, list, cur, conv, streaming) ==
    SyncEffect(ms, ref, conv, CurrentMessages(list, cur), streaming)

\* ------------------------------ the message container (ChatOverlay 353-433)
\* isAtBottom: scrollHeight - scrollTop - clientHeight < 50
NearBottom   == 50
\* the layout: the container shows one line of text, a message takes a line
\* for each character of its content and one line when it has none
LineHeight   == 60
ClientHeight == 60

Lines(m) == IF Len(m.content) = 0 THEN 1 ELSE Len(m.content)
RECURSIVE ContentHeight(_)
ContentHeight(ms) ==
    IF ms = <<>> THEN 0
    ELSE ContentHeight(SubSeq(ms, 1, Len(ms) - 1)) + LineHeight * Lines(ms[Len(ms)])
ScrollHeight(ms) ==
    IF ContentHeight(ms) < ClientHeight THEN ClientHeight ELSE ContentHeight(ms)
MaxScrollTop(ms) == ScrollHeight(ms) - ClientHeight
IsAtBottom(ms, top) == ScrollHeight(ms) - top - ClientHeight < NearBottom

\* the browser keeps scrollTop within the content
Clamp(ms, top) == IF top > MaxScrollTop(ms) THEN MaxScrollTop(ms) ELSE top

\* A render that leaves the panel with the list ms and the flag streaming:
\* the effect on [isStreaming, isUserScrolledUp] (150-159), the effect on
\* [messages, isUserScrolledUp] (177-181), and handleScroll (162-174) for the
\* scroll event when the position has moved. scrollIntoView is taken to have
\* arrived. When the streaming-end effect shows the button and the scroll event
\* of a clamped position hides it, either may come last. was: the value
\* wasStreamingRef holds when the effects run.
ScrollEffects(was, ms, streaming) ==
    LET ended == was /\ ~streaming /\ isUserScrolledUp
        top == IF ms # messages /\ ~isUserScrolledUp
               THEN MaxScrollTop(ms) ELSE Clamp(ms, scrollTop)
    IN  /\ wasStreamingRef' = streaming
        /\ scrollTop' = top
        /\ IF top = scrollTop
           THEN /\ isUserScrolledUp' = isUserScrolledUp
                /\ showNewMessageButton' = (showNewMessageButton \/ ended)
           ELSE /\ isUserScrolledUp' = ~IsAtBottom(ms, top)
                /\ IF ~IsAtBottom(ms, top)
                   THEN showNewMessageButton' = (showNewMessageButton \/ ended)
                   ELSE IF ended THEN showNewMessageButton' \in BOOLEAN
                   ELSE showNewMessageButton' = FALSE

\* the panel is rendered only while a document is selected (page.tsx 705)
\* sent: the value initialPromptSentRef holds when the effects run
PanelSyncSent(sent, was, ms, list, cur, conv, streaming) ==
    IF selectedPdf = NoPdf
    THEN /\ UNCHANGED <<messages, prevConversationIdRef, scrollVars>>
         /\ initialPromptSentRef' = sent
    ELSE \E r \in {Rendered(ms, prevConversationIdRef, list, cur, conv, streaming)} :
             /\ messages' = r.messages
             /\ prevConversationIdRef' = r.ref
             /\ initialPromptSentRef' =
                    (sent /\ ~SyncResets(ms, prevConversationIdRef, conv,
                                         CurrentMessages(list, cur), streaming))
             /\ ScrollEffects(was, r.messages, streaming)

PanelSyncFrom(was, ms, list, cur, conv, streaming) ==
    PanelSyncSent(initialPromptSentRef, was, ms, list, cur, conv, streaming)

PanelSync(ms, list, cur, conv, streaming) ==
    PanelSyncFrom(wasStreamingRef, ms, list, cur, conv, streaming)

\* ------------------------------------------------------------- wire format
DataPrefix == <<"d", "a", "t", "a", ":", " ">>
PreText    == <<"{", "\"", "t", "e", "x", "t", "\"", ":", "\"">>
PreError   == <<"{", "\"", "e", "r", "r", "o", "r", "\"", ":", "\"">>
PreDone    == <<"{", "\"", "d", "o", "n", "e", "\"", ":", "t", "r", "u", "e", ",",
                "\"", "c", "o", "n", "v", "e", "r", "s", "a", "t", "i", "o", "n",
                "I", "d", "\"", ":", "\"">>
Suffix     == <<"\"", "}">>
JSONWord   == <<"J", "S", "O", "N">>

\* an id as it is written into JSON, and back
IdDigits == <<"1", "2", "3", "4", "5", "6", "7", "8", "9">>
IdChars(id) == <<IdDigits[id]>>
IdOfChars(cs) ==
    IF \E i \in 1..Len(IdDigits) : cs = <<IdDigits[i]>>
    THEN CHOOSE i \in 1..Len(IdDigits) : cs = <<IdDigits[i]>>
    ELSE NoId

\* `data: ${JSON.stringify(payload)}\n\n` (route.ts 140, 152); an error frame
\* is the frame page.tsx 498-504 takes for one: a data line whose object has a
\* non-empty error member
Frame(payload)   == DataPrefix \o payload \o <<"\n", "\n">>
TextFrame(t)     == Frame(PreText \o t \o Suffix)
DoneFrame(cid)   == Frame(PreDone \o IdChars(cid) \o Suffix)
ErrorFrame(msg)  == Frame(PreError \o msg \o Suffix)

StartsWith(s, p) == Len(s) >= Len(p) /\ SubSeq(s, 1, Len(p)) = p
Slice(s, k)      == SubSeq(s, k + 1, Len(s))
Includes(s, w)   == \E i \in 1..(Len(s) - Len(w) + 1) : SubSeq(s, i, i + Len(w) - 1) = w

\* chunk.split('\n')
RECURSIVE SplitLines(_)
\* the piece before the first newline, then the split of what follows it
SplitAtNewline(s) ==
    IF \A i \in 1..Len(s) : s[i] # "\n" THEN <<s>>
    ELSE LET k == CHOOSE i \in 1..Len(s) :
                     s[i] = "\n" /\ \A j \in 1..(i - 1) : s[j] # "\n"
         IN  <<SubSeq(s, 1, k - 1)>> \o SplitLines(SubSeq(s, k + 1, Len(s)))
\* the argument is a value that is computed once
SplitLines(chunk) == CHOOSE lines \in {SplitAtNewline(s) : s \in {chunk}} : TRUE

\* JSON.parse of a payload of this protocol: an object with one string member
\* (text, error) or done:true and conversationId; anything else (a cut payload,
\* the empty string, text that is no JSON) is a SyntaxError, ok = FALSE
Enclosed(s, pre) ==
    /\ Len(s) >= Len(pre) + Len(Suffix)
    /\ SubSeq(s, 1, Len(pre)) = pre
    /\ SubSeq(s, Len(s) - 1, Len(s)) = Suffix
    /\ \A i \in (Len(pre) + 1)..(Len(s) - 2) : s[i] \notin {"\"", "\\", "\n"}
Inner(s, pre) == SubSeq(s, Len(pre) + 1, Len(s) - 2)
NoData == [ok |-> FALSE, text |-> <<>>, error |-> <<>>, done |-> FALSE,
           conversationId |-> <<>>]
ParseJSON(s) ==
    IF Enclosed(s, PreText)
        THEN [NoData EXCEPT !.ok = TRUE, !.text = Inner(s, PreText)]
    ELSE IF Enclosed(s, PreError)
        THEN [NoData EXCEPT !.ok = TRUE, !.error = Inner(s, PreError)]
    ELSE IF Enclosed(s, PreDone)
        THEN [NoData EXCEPT !.ok = TRUE, !.done = TRUE,
                            !.conversationId = Inner(s, PreDone)]
    ELSE NoData

\* the for loop over the lines of one chunk (page.tsx 497-522): the delta texts
\* handed to onStreamChunk, the conversation id set, whether preloadHighlights
\* was started, and the error thrown out of the loop
NoEffect == [texts |-> <<>>, conv |-> NoId, preload |-> FALSE, thrown |-> None]
RECURSIVE HandleLines(_, _)
\* the body of the loop for the first line, then the lines after it
HandleLine(lines, acc) ==
    IF lines = <<>> THEN acc
    ELSE LET line == Head(lines)
             data == ParseJSON(Slice(line, 6))
         IN  IF ~StartsWith(line, DataPrefix) THEN HandleLines(Tail(lines), acc)
             \* a SyntaxError message includes 'JSON': ignored
             ELSE IF ~data.ok THEN HandleLines(Tail(lines), acc)
             ELSE IF data.error # <<>>
                THEN IF Includes(data.error, JSONWord)
                     THEN HandleLines(Tail(lines), acc)
                     ELSE [acc EXCEPT !.thrown = Some(data.error)]
             ELSE LET a1 == IF data.text # <<>>
                            THEN [acc EXCEPT !.texts = Append(@, data.text)]
                            ELSE acc
                      a2 == IF data.done /\ data.conversationId # <<>>
                            THEN [a1 EXCEPT !.conv = IdOfChars(data.conversationId),
                                            !.preload = TRUE]
                            ELSE a1
                  IN  HandleLines(Tail(lines), a2)
\* the arguments are values that are computed once
HandleLines(lines, acc) ==
    CHOOSE out \in {HandleLine(l, a) : l \in {lines}, a \in {acc}} : TRUE

HandleChunk(chunk) == HandleLines(SplitLines(chunk), NoEffect)

\* the first frame on the wire: what one enqueue of the route hands the transport
FirstFrameLen(w) ==
    IF \E i \in 1..(Len(w) - 1) : w[i] = "\n" /\ w[i + 1] = "\n"
    THEN 1 + (CHOOSE i \in 1..(Len(w) - 1) :
                /\ w[i] = "\n" /\ w[i + 1] = "\n"
                /\ \A j \in 1..(i - 1) : ~(w[j] = "\n" /\ w[j + 1] = "\n"))
    ELSE Len(w)

\* ------------------------------------------------ ChatOverlay.tsx handleSend
UserText == <<"q">>
\* the k-th text chunk the provider yields (lib/gemini.ts streamChat)
ProviderChunk(k) == IF k % 2 = 1 THEN <<"a">> ELSE <<"b">>
ErrCreateHighlight == <<"F", "a", "i", "l", "e", "d", " ", "t", "o", " ", "c", "r",
                        "e", "a", "t", "e", " ", "h", "i", "g", "h", "l", "i", "g",
                        "h", "t">>
ErrConversationNotFound == <<"C", "o", "n", "v", "e", "r", "s", "a", "t", "i", "o",
                             "n", " ", "n", "o", "t", " ", "f", "o", "u", "n", "d">>
ErrKey      == <<"G", "E", "M", "I", "N", "I", "_", "A", "P", "I", "_", "K", "E",
                 "Y", " ", "i", "s", " ", "n", "o", "t", " ", "c", "o", "n", "f",
                 "i", "g", "u", "r", "e", "d", ".", " ", "P", "l", "e", "a", "s",
                 "e", " ", "s", "e", "t", " ", "i", "t", " ", "i", "n", " ", "y",
                 "o", "u", "r", " ", ".", "e", "n", "v", " ", "f", "i", "l", "e",
                 ".">>
ErrRequired == <<"h", "i", "g", "h", "l", "i", "g", "h", "t", "I", "d", " ", "a",
                 "n", "d", " ", "m", "e", "s", "s", "a", "g", "e", " ", "a", "r",
                 "e", " ", "r", "e", "q", "u", "i", "r", "e", "d">>
ErrProcess  == <<"F", "a", "i", "l", "e", "d", " ", "t", "o", " ", "p", "r", "o",
                 "c", "e", "s", "s", " ", "c", "h", "a", "t", " ", "m", "e", "s",
                 "s", "a", "g", "e">>
ErrNetwork  == <<"n", "e", "t", "w", "o", "r", "k", " ", "e", "r", "r", "o", "r">>

UserMessage(text)  == [id |-> NoId, role |-> "user", content |-> text]
Placeholder        == [id |-> NoId, role |-> "assistant", content |-> <<>>]
ErrorMessage(text) == [id |-> NoId, role |-> "assistant", content |-> text]

\* onStreamChunk(text)
\* onStreamChunk that puts the text in front of the content
OnStreamChunkInFront(ms, text) ==
    IF ms # <<>> /\ ms[Len(ms)].role = "assistant"
    THEN [ms EXCEPT ![Len(ms)].content = text \o @]
    ELSE ms

OnStreamChunk(ms, text) ==
    IF ms # <<>> /\ ms[Len(ms)].role = "assistant"
    THEN [ms EXCEPT ![Len(ms)].content = @ \o text]
    ELSE ms

RECURSIVE OnStreamChunks(_, _)
OnStreamChunks(ms, texts) ==
    IF texts = <<>> THEN ms
    ELSE OnStreamChunks(OnStreamChunk(ms, Head(texts)), Tail(texts))

\* the catch of handleSend: newMessages[newMessages.length - 1] = error message
ReplaceLast(ms, text) ==
    IF ms = <<>> THEN ms ELSE [ms EXCEPT ![Len(ms)] = ErrorMessage(text)]

\* a call of handleSend / handleSendMessage: where it is, what its closure
\* holds, and whether the panel that made the call has been unmounted since
IdleSend == [pc |-> "idle", highlightId |-> NoId, conversationId |-> NoId,
             pending |-> None, pdf |-> NoPdf, created |-> None,
             detached |-> FALSE]
IdleChat == [pc |-> "idle", highlightId |-> NoId, conversationId |-> NoId,
             message |-> <<>>, status |-> 0, body |-> <<>>, conv |-> NoId,
             fullResponse |-> <<>>, n |-> 0]

\* ---------------------------------------------------------------- initial
\* the store an earlier session left: one highlight of document p1 with the
\* conversation of one completed turn
StoredHighlight == [id |-> 1, pdfId |-> "p1", pageNumber |-> 1,
                    selectedText |-> "A", createdAt |-> 1]
StoredConversation == [id |-> 1, highlightId |-> 1, createdAt |-> 1]
StoredMessages ==
    {[id |-> 1, conversationId |-> 1, role |-> "user", content |-> UserText,
      createdAt |-> 1],
     [id |-> 2, conversationId |-> 1, role |-> "assistant",
      content |-> ProviderChunk(1), createdAt |-> 2]}

InitStore ==
    /\ dbHighlights = {StoredHighlight}
    /\ dbConversations = {StoredConversation}
    /\ dbMessages = StoredMessages
    /\ nextH = 2 /\ nextC = 2 /\ nextM = 3

\* useState<number>(1.2): the viewer starts at 120%
InitialScale == 12
InitViewer == scale = InitialScale /\ selectionRect = None

\* the page and the panel as they mount: no document selected, chat closed
InitClient ==
    /\ selectedPdf = NoPdf /\ highlights = <<>>
    /\ selectedText = "" /\ selectionRanges = None
    /\ showPopup = FALSE /\ showChat = FALSE
    /\ currentHighlightId = NoId /\ currentConversationId = NoId
    /\ pendingHighlight = None /\ deletedHighlight = None /\ error = ""
    /\ initialPrompt = None /\ keyedSelection = None
    /\ messages = <<>> /\ isStreaming = FALSE /\ prevConversationIdRef = NoId
    /\ initialPromptSentRef = FALSE
    /\ isUserScrolledUp = FALSE /\ showNewMessageButton = FALSE
    /\ wasStreamingRef = FALSE /\ scrollTop = 0
    /\ fetches = {} /\ del = None /\ undo = None /\ send = IdleSend

InitServer ==
    /\ chat = IdleChat /\ wire = <<>> /\ wireEnd = "none" /\ geminiApiKey = TRUE

Init ==
    /\ InitStore
    /\ pdfs = {"p1"} /\ InitViewer
    /\ InitClient
    /\ InitServer

\* --------------------------------------------- list refresh (page.tsx 96-135)
\* requests of the page that have not been answered yet
InFlight ==
    Cardinality(fetches) + (IF IsSome(del) THEN 1 ELSE 0)
        + (IF IsSome(undo) THEN 1 ELSE 0) + (IF send.pc # "idle" THEN 1 ELSE 0)

\* preloadHighlights(pdfId) up to the await of fetch; GET /api/highlights?pdfId=
\* reads the store when the request is made, the answer travels back later
StartPreload(pdfId) ==
    \* the refresh a done frame starts belongs to the send that is ending
    /\ InFlight < MaxInFlight + (IF send.pc = "reading" THEN 1 ELSE 0)
    /\ fetches' = fetches \cup {[pdfId |-> pdfId, resp |-> FindManyByPdf(pdfId)]}
    /\ error' = ""

\* <select onChange>: setSelectedPdf, then the effect on [selectedPdf]. The
\* viewer and the chat panel are rendered only while a document is selected:
\* the panel is unmounted with its state when none is, and mounts anew
\* (useState(initialMessages), useRef(conversationId)) with the next one
SelectPdf(p) ==
    /\ p # selectedPdf
    /\ selectedPdf' = p
    /\ IF p # NoPdf THEN StartPreload(p) ELSE UNCHANGED <<fetches, error>>
    /\ IF p = NoPdf
       THEN /\ messages' = <<>>
            /\ isStreaming' = FALSE
            /\ prevConversationIdRef' = NoId
            /\ initialPromptSentRef' = FALSE
            /\ isUserScrolledUp' = FALSE /\ showNewMessageButton' = FALSE
            /\ wasStreamingRef' = FALSE /\ scrollTop' = 0
            /\ send' = IF send.pc = "idle" THEN send
                       ELSE [send EXCEPT !.detached = TRUE]
       ELSE IF selectedPdf = NoPdf
       THEN /\ messages' = CurrentMessages(highlights, currentHighlightId)
            /\ isStreaming' = FALSE
            /\ prevConversationIdRef' = currentConversationId
            /\ initialPromptSentRef' = FALSE
            \* the effects run on mount: the new list is scrolled into view
            /\ isUserScrolledUp' = FALSE /\ showNewMessageButton' = FALSE
            /\ wasStreamingRef' = FALSE
            /\ scrollTop' = MaxScrollTop(messages')
            /\ UNCHANGED send
       ELSE UNCHANGED <<panelVars, send>>
    /\ UNCHANGED <<dbVars, viewerVars, promptVars, pdfs, highlights, selectedText, selectionRanges,
                   showPopup, showChat, currentHighlightId, currentConversationId,
                   pendingHighlight, deletedHighlight, del, undo, srvVars>>

\* PreloadOk with the answer merged into the list instead of replacing it
PreloadOkMerges(f) ==
    /\ fetches' = fetches \ {f}
    /\ highlights' = highlights \o f.resp
    /\ PanelSync(messages, highlights', currentHighlightId, currentConversationId,
                 isStreaming)
    /\ UNCHANGED <<dbVars, viewerVars, promptVars, pdfs, selectedPdf, selectedText, selectionRanges,
                   showPopup, showChat, currentHighlightId, currentConversationId,
                   pendingHighlight, deletedHighlight, error, isStreaming, del, undo,
                   send, srvVars>>

\* preloadHighlights after the await: setHighlights(data.highlights)
PreloadOk(f) ==
    /\ fetches' = fetches \ {f}
    /\ highlights' = f.resp
    /\ PanelSync(messages, highlights', currentHighlightId, currentConversationId,
                 isStreaming)
    /\ UNCHANGED <<dbVars, viewerVars, promptVars, pdfs, selectedPdf, selectedText, selectionRanges,
                   showPopup, showChat, currentHighlightId, currentConversationId,
                   pendingHighlight, deletedHighlight, error, isStreaming, del, undo,
                   send, srvVars>>

\* ------------------------------------------ selection (page.tsx 169-239)
\* handleTextSelect(text, ranges) with text.trim() non-empty
TextSelect(text, page) ==
    /\ selectedPdf # NoPdf
    /\ selectedText' = text
    /\ selectionRanges' = Some([page |-> page])
    /\ showPopup' = TRUE
    /\ UNCHANGED <<dbVars, viewerVars, promptVars, pdfs, selectedPdf, highlights, showChat,
                   currentHighlightId, currentConversationId, pendingHighlight,
                   deletedHighlight, error, panelVars, flightVars, srvVars>>

\* SelectionPopup onClose
PopupClose ==
    /\ showPopup
    /\ showPopup' = FALSE
    /\ UNCHANGED <<dbVars, viewerVars, promptVars, pdfs, selectedPdf, highlights, selectedText,
                   selectionRanges, showChat, currentHighlightId,
                   currentConversationId, pendingHighlight, deletedHighlight, error,
                   panelVars, flightVars, srvVars>>

\* handleQueryClick that keeps a pending highlight it finds
QueryClickKeepsPending ==
    /\ showPopup
    /\ selectedText # "" /\ selectedPdf # NoPdf /\ IsSome(selectionRanges)
    /\ showPopup' = FALSE
    /\ LET i == Resolve(selectedText, The(selectionRanges).page, highlights)
       IN  IF i # 0
           THEN /\ currentHighlightId' = highlights[i].id
                /\ currentConversationId' = ConversationIdOf(highlights[i])
                /\ pendingHighlight' = None
           ELSE /\ pendingHighlight' =
                    IF IsSome(pendingHighlight) THEN pendingHighlight
                    ELSE Some([pdfId |-> selectedPdf,
                               pageNumber |-> The(selectionRanges).page,
                               selectedText |-> selectedText])
                /\ currentHighlightId' = NoId
                /\ currentConversationId' = NoId
    /\ showChat' = TRUE
    /\ PanelSync(messages, highlights, currentHighlightId', currentConversationId',
                 isStreaming)
    /\ UNCHANGED <<dbVars, viewerVars, promptVars, pdfs, selectedPdf, highlights, selectedText,
                   selectionRanges, deletedHighlight, error, isStreaming, flightVars,
                   srvVars>>

\* handleQueryClick (page.tsx 188-225), called from the popup and from the
\* shortcut keys
handleQueryClick ==
    /\ showPopup
    /\ selectedText # "" /\ selectedPdf # NoPdf /\ IsSome(selectionRanges)
    /\ showPopup' = FALSE
    /\ LET i == Resolve(selectedText, The(selectionRanges).page, highlights)
       IN  IF i # 0
           THEN /\ currentHighlightId' = highlights[i].id
                /\ currentConversationId' = ConversationIdOf(highlights[i])
                /\ pendingHighlight' = None
           ELSE /\ pendingHighlight' =
                    Some([pdfId |-> selectedPdf,
                          pageNumber |-> The(selectionRanges).page,
                          selectedText |-> selectedText])
                /\ currentHighlightId' = NoId
                /\ currentConversationId' = NoId
    /\ showChat' = TRUE
    /\ PanelSync(messages, highlights, currentHighlightId', currentConversationId',
                 isStreaming)
    /\ UNCHANGED <<dbVars, viewerVars, pdfs, selectedPdf, highlights, selectedText,
                   selectionRanges, deletedHighlight, error, isStreaming, flightVars,
                   srvVars>>

\* the popup's button, or the Space key while the popup shows (406-409)
QueryClick == handleQueryClick /\ UNCHANGED promptVars

\* HighlightClick that leaves the pending highlight where it is
HighlightClickKeepsPending(id) ==
    /\ selectedPdf # NoPdf
    /\ FindById(id, highlights) # 0
    /\ LET h == highlights[FindById(id, highlights)]
       IN  /\ selectedText' = h.selectedText
           /\ currentHighlightId' = id
           /\ currentConversationId' = ConversationIdOf(h)
    /\ showChat' = TRUE
    /\ PanelSync(messages, highlights, currentHighlightId', currentConversationId',
                 isStreaming)
    /\ UNCHANGED <<dbVars, viewerVars, promptVars, pdfs, selectedPdf, highlights, selectionRanges,
                   showPopup, pendingHighlight, deletedHighlight, error, isStreaming,
                   flightVars, srvVars>>

\* handleHighlightClick(highlightId), from an overlay the viewer renders
HighlightClick(id) ==
    /\ selectedPdf # NoPdf
    /\ FindById(id, highlights) # 0
    /\ LET h == highlights[FindById(id, highlights)]
       IN  /\ selectedText' = h.selectedText
           /\ currentHighlightId' = id
           /\ currentConversationId' = ConversationIdOf(h)
    /\ pendingHighlight' = None
    /\ showChat' = TRUE
    /\ PanelSync(messages, highlights, currentHighlightId', currentConversationId',
                 isStreaming)
    /\ UNCHANGED <<dbVars, viewerVars, promptVars, pdfs, selectedPdf, highlights, selectionRanges, showPopup,
                   deletedHighlight, error, isStreaming, flightVars, srvVars>>

\* ChatPanel onClose that leaves the pending highlight where it is
ChatCloseKeepsPending ==
    /\ showChat /\ selectedPdf # NoPdf
    /\ showChat' = FALSE
    /\ selectedText' = ""
    /\ initialPrompt' = None /\ UNCHANGED keyedSelection
    /\ UNCHANGED <<dbVars, viewerVars, pdfs, selectedPdf, highlights, selectionRanges, showPopup,
                   currentHighlightId, currentConversationId, deletedHighlight,
                   error, panelVars, flightVars, srvVars, pendingHighlight>>

\* ChatPanel onClose (page.tsx 763-769)
ChatClose ==
    /\ showChat /\ selectedPdf # NoPdf
    /\ showChat' = FALSE
    /\ selectedText' = ""
    /\ initialPrompt' = None /\ UNCHANGED keyedSelection
    /\ pendingHighlight' = None
    /\ UNCHANGED <<dbVars, viewerVars, pdfs, selectedPdf, highlights, selectionRanges, showPopup,
                   currentHighlightId, currentConversationId, deletedHighlight,
                   error, panelVars, flightVars, srvVars>>

\* ------------------------------ the viewer (part_005 58-178, 363-373)
\* Math.max(prev - 0.1, 0.5), Math.min(prev + 0.1, 3.0), Math.max(..., 10)
MinScale   == 5
MaxScale   == 30
MinOverlay == 10

\* the numbers of the viewer's arithmetic: n / d with d > 0, without the
\* rounding of the floating-point operations
Rat(n, d)    == [n |-> n, d |-> d]
Px(v)        == Rat(v, 1)
RatEq(a, b)  == a.n * b.d = b.n * a.d
RatSub(a, b) == Rat(a.n * b.d - b.n * a.d, a.d * b.d)
RatMax(a, b) == IF a.n * b.d < b.n * a.d THEN b ELSE a

\* x / scale with the scale left out
OverScaleNone(x, s) == x

\* x / scale and x * scale, the scale s in tenths
OverScale(x, s)  == Rat(x.n * 10, x.d * s)
TimesScale(x, s) == Rat(x.n * s, x.d * 10)

\* handleTextSelection 160-167: the rectangle relative to the page, at 100%
Normalize(page, rect, s) ==
    [page |-> page,
     startX |-> OverScale(Px(rect.left), s), startY |-> OverScale(Px(rect.top), s),
     endX |-> OverScale(Px(rect.right), s), endY |-> OverScale(Px(rect.bottom), s)]

\* the style of the overlay of a highlight with these ranges (368-371)
OverlayStyle(ranges, s) ==
    [left   |-> TimesScale(ranges.startX, s),
     top    |-> TimesScale(ranges.startY, s),
     width  |-> TimesScale(RatMax(RatSub(ranges.endX, ranges.startX),
                                  Px(MinOverlay)), s),
     height |-> TimesScale(RatMax(RatSub(ranges.endY, ranges.startY),
                                  Px(MinOverlay)), s)]

\* rectangles of a selection: a character or a stretch of a line, of small
\* print or of body text
RawRects ==
    {[left |-> l, top |-> 7, right |-> l + w, bottom |-> 7 + h] :
        l \in {0, 30}, w \in {4, 60}, h \in {9, 14}}

zoomIn ==
    /\ scale < MaxScale
    /\ scale' = scale + 1
    /\ UNCHANGED <<dbVars, selectionRect, promptVars, pdfs, selectedPdf, highlights,
                   selectedText, selectionRanges, showPopup, showChat,
                   currentHighlightId, currentConversationId, pendingHighlight,
                   deletedHighlight, error, panelVars, flightVars, srvVars>>

zoomOut ==
    /\ scale > MinScale
    /\ scale' = scale - 1
    /\ UNCHANGED <<dbVars, selectionRect, promptVars, pdfs, selectedPdf, highlights,
                   selectedText, selectionRanges, showPopup, showChat,
                   currentHighlightId, currentConversationId, pendingHighlight,
                   deletedHighlight, error, panelVars, flightVars, srvVars>>

\* handleTextSelection (onMouseUp) with a selection of text on a page, and
\* handleTextSelect of the page, which it calls
handleTextSelection(text, page, rect) ==
    /\ selectedPdf # NoPdf
    /\ selectionRect' = Some(rect)
    /\ selectedText' = text
    /\ selectionRanges' = Some(Normalize(page, rect, scale))
    /\ showPopup' = TRUE
    /\ UNCHANGED <<dbVars, scale, promptVars, pdfs, selectedPdf, highlights, showChat,
                   currentHighlightId, currentConversationId, pendingHighlight,
                   deletedHighlight, error, panelVars, flightVars, srvVars>>

\* ------------------------------- scrolling (ChatOverlay.tsx 161-195, 356)
\* positions the user scrolls to: the top, near the bottom, the bottom
ScrollTargets(ms) ==
    {t \in {0, MaxScrollTop(ms) - (NearBottom - 10), MaxScrollTop(ms)} : t >= 0}

\* the scroll event of a position top, and the render that follows: the
\* effect on [messages, isUserScrolledUp] scrolls to the end when the flag
\* has been cleared
OnScroll(top) ==
    /\ isUserScrolledUp' = ~IsAtBottom(messages, top)
    /\ scrollTop' = IF IsAtBottom(messages, top) /\ isUserScrolledUp
                    THEN MaxScrollTop(messages) ELSE top

\* onScroll={handleScroll}: the user scrolls the container to t
UserScroll(t) ==
    /\ selectedPdf # NoPdf
    /\ t # scrollTop
    /\ OnScroll(t)
    /\ showNewMessageButton' = (showNewMessageButton /\ ~IsAtBottom(messages, t))
    /\ UNCHANGED <<dbVars, pageVars, messages, isStreaming, prevConversationIdRef,
                   initialPromptSentRef,
                   wasStreamingRef, flightVars, srvVars>>

\* where the last assistant message starts; the end when there is none
LastAssistantTop(ms) ==
    LET as == {i \in 1..Len(ms) : ms[i].role = "assistant"}
    IN  IF as = {} THEN MaxScrollTop(ms)
        ELSE LET i == CHOOSE k \in as : \A j \in as : j <= k
             IN  Clamp(ms, ContentHeight(SubSeq(ms, 1, i - 1)))

\* handleNewMessageClick: the last assistant message is scrolled to the top
\* of the container, the button is hidden
NewMessageClick ==
    /\ selectedPdf # NoPdf
    /\ showNewMessageButton
    /\ showNewMessageButton' = FALSE
    /\ LET t == LastAssistantTop(messages)
       IN  IF t = scrollTop \/ \A i \in 1..Len(messages) : messages[i].role # "assistant"
           THEN UNCHANGED <<isUserScrolledUp, scrollTop>>
           ELSE OnScroll(t)
    /\ UNCHANGED <<dbVars, pageVars, messages, isStreaming, prevConversationIdRef,
                   initialPromptSentRef,
                   wasStreamingRef, flightVars, srvVars>>

\* ----------------------------------------- delete / undo (page.tsx 241-293)
\* DELETE /api/highlights?id= (part_003 149-190); ok: the store calls succeed
DeleteRoute(id, ok) ==
    LET h == FindUniqueHighlight(id)
    IN  IF ~ok
        THEN \* catch: 500
             /\ del' = Some([id |-> id, cur |-> currentHighlightId,
                             status |-> 500, deleted |-> None])
             /\ UNCHANGED dbVars
        ELSE IF ~IsSome(h)
        THEN /\ del' = Some([id |-> id, cur |-> currentHighlightId,
                             status |-> 404, deleted |-> None])
             /\ UNCHANGED dbVars
        ELSE /\ dbHighlights' = {x \in dbHighlights : x.id # id}
             /\ dbConversations' = CascadeConversations(id)
             /\ dbMessages' = CascadeMessages(id)
             /\ del' = Some([id |-> id, cur |-> currentHighlightId,
                             status |-> 200, deleted |-> h])
             /\ UNCHANGED <<nextH, nextC, nextM>>

\* handleHighlightDelete(highlightId) up to the await of fetch; the route
\* handles the request when it is made, the answer travels back later
HighlightDelete(id) ==
    /\ selectedPdf # NoPdf
    /\ FindById(id, highlights) # 0
    /\ del = None
    /\ InFlight < MaxInFlight
    /\ \E ok \in BOOLEAN : DeleteRoute(id, ok)
    /\ UNCHANGED <<pageVars, panelVars, fetches, undo, send, srvVars>>

\* handleHighlightDelete after the await, res.ok
DeleteOk ==
    /\ IsSome(del) /\ The(del).status = 200
    /\ del' = None
    /\ deletedHighlight' = The(del).deleted
    /\ highlights' = FilterOut(highlights, The(del).id)
    /\ IF The(del).cur = The(del).id
       THEN /\ showChat' = FALSE
            /\ currentHighlightId' = NoId
            /\ currentConversationId' = NoId
       ELSE UNCHANGED <<showChat, currentHighlightId, currentConversationId>>
    /\ PanelSync(messages, highlights', currentHighlightId', currentConversationId',
                 isStreaming)
    /\ UNCHANGED <<dbVars, viewerVars, promptVars, pdfs, selectedPdf, selectedText, selectionRanges,
                   showPopup, pendingHighlight, error, isStreaming, fetches, undo,
                   send, srvVars>>

\* handleHighlightDelete after the await, !res.ok
DeleteFail ==
    /\ IsSome(del) /\ The(del).status # 200
    /\ del' = None
    /\ error' = IF The(del).status = 404 THEN "Highlight not found"
                ELSE "Failed to delete highlight"
    /\ UNCHANGED <<dbVars, viewerVars, promptVars, pdfs, selectedPdf, highlights, selectedText,
                   selectionRanges, showPopup, showChat, currentHighlightId,
                   currentConversationId, pendingHighlight, deletedHighlight,
                   panelVars, fetches, undo, send, srvVars>>

\* PUT /api/highlights (part_003 79-147); ok: the store calls succeed
RestoreRoute(t, ok) ==
    IF ~ok \/ \E h \in dbHighlights : h.id = t.id
    THEN \* a store call throws (also: unique constraint on id): catch, 500
         /\ undo' = Some([status |-> 500, restored |-> None])
         /\ UNCHANGED dbVars
    ELSE /\ dbHighlights' = dbHighlights \cup {RestoredHighlight(t)}
         /\ dbConversations' = dbConversations \cup RestoredConversations(t)
         /\ dbMessages' = dbMessages \cup RestoredMessages(t)
         /\ undo' = Some([status |-> 200,
                          restored |-> Some(IncludeConversation(RestoredHighlight(t),
                                              dbConversations', dbMessages'))])
         /\ UNCHANGED <<nextH, nextC, nextM>>

\* handleUndoDelete up to the await of fetch (Cmd+Z / Ctrl+Z)
UndoDelete ==
    /\ IsSome(deletedHighlight)
    /\ undo = None
    /\ InFlight < MaxInFlight
    /\ \E ok \in BOOLEAN : RestoreRoute(The(deletedHighlight), ok)
    /\ UNCHANGED <<pageVars, panelVars, fetches, del, send, srvVars>>

\* handleUndoDelete after the await, res.ok, with the tombstone kept
UndoOkKeepsTombstone ==
    /\ IsSome(undo) /\ The(undo).status = 200
    /\ undo' = None
    /\ highlights' = highlights \o <<The(The(undo).restored)>>
    /\ PanelSync(messages, highlights', currentHighlightId, currentConversationId,
                 isStreaming)
    /\ UNCHANGED <<dbVars, viewerVars, promptVars, pdfs, selectedPdf, selectedText, selectionRanges,
                   showPopup, showChat, currentHighlightId, currentConversationId,
                   pendingHighlight, error, isStreaming, fetches, del, send, srvVars,
                   deletedHighlight>>

\* handleUndoDelete after the await, res.ok
UndoOk ==
    /\ IsSome(undo) /\ The(undo).status = 200
    /\ undo' = None
    /\ highlights' = highlights \o <<The(The(undo).restored)>>
    /\ deletedHighlight' = None
    /\ PanelSync(messages, highlights', currentHighlightId, currentConversationId,
                 isStreaming)
    /\ UNCHANGED <<dbVars, viewerVars, promptVars, pdfs, selectedPdf, selectedText, selectionRanges,
                   showPopup, showChat, currentHighlightId, currentConversationId,
                   pendingHighlight, error, isStreaming, fetches, del, send, srvVars>>

\* handleUndoDelete after the await, !res.ok
UndoFail ==
    /\ IsSome(undo) /\ The(undo).status = 500
    /\ undo' = None
    /\ error' = "Failed to restore highlight"
    /\ UNCHANGED <<dbVars, viewerVars, promptVars, pdfs, selectedPdf, highlights, selectedText,
                   selectionRanges, showPopup, showChat, currentHighlightId,
                   currentConversationId, pendingHighlight, deletedHighlight,
                   panelVars, fetches, del, send, srvVars>>

\* ----------------------------------------- POST /api/chat (route.ts 8-192)
Answer(hid, cid, msg, status, body) ==
    [IdleChat EXCEPT !.pc = "answered", !.highlightId = hid, !.conversationId = cid,
                     !.message = msg, !.status = status, !.body = body]

\* the lookup that finds no conversation of the highlight
ExistingConvNone(hid) == {}

\* db.conversation.findUnique({ where: { highlightId } }) (route.ts 63-66)
ExistingConv(hid) == {c \in dbConversations : c.highlightId = hid}

\* the handler up to `return new Response(readable, ...)`: the key check, the
\* validation, the conversation found or created, the user message saved
ChatRoute(hid, cid, msg) ==
    /\ wire' = <<>>
    /\ UNCHANGED geminiApiKey
    /\ IF ~geminiApiKey
       THEN /\ chat' = Answer(hid, cid, msg, 503, ErrKey)
            /\ wireEnd' = "none"
            /\ UNCHANGED <<dbConversations, dbMessages, nextC, nextM>>
       ELSE IF hid = NoId \/ msg = <<>>
       THEN /\ chat' = Answer(hid, cid, msg, 400, ErrRequired)
            /\ wireEnd' = "none"
            /\ UNCHANGED <<dbConversations, dbMessages, nextC, nextM>>
       ELSE LET byId == {c \in dbConversations : c.id = cid}
                byHl == ExistingConv(hid)
                found == IF cid # NoId THEN byId ELSE byHl
                create == cid = NoId /\ byHl = {}
                conv == IF create THEN nextC ELSE (CHOOSE c \in found : TRUE).id
            IN  IF cid # NoId /\ byId = {}
                THEN /\ chat' = Answer(hid, cid, msg, 404, ErrConversationNotFound)
                     /\ wireEnd' = "none"
                     /\ UNCHANGED <<dbConversations, dbMessages, nextC, nextM>>
                ELSE IF create /\ ~\E h \in dbHighlights : h.id = hid
                THEN \* foreign key: db.conversation.create throws, outer catch
                     /\ chat' = Answer(hid, cid, msg, 500, ErrProcess)
                     /\ wireEnd' = "none"
                     /\ UNCHANGED <<dbConversations, dbMessages, nextC, nextM>>
                ELSE /\ dbConversations' =
                          IF create
                          THEN dbConversations \cup
                                 {[id |-> nextC, highlightId |-> hid,
                                   createdAt |-> nextC]}
                          ELSE dbConversations
                     /\ nextC' = IF create THEN nextC + 1 ELSE nextC
                     /\ dbMessages' = dbMessages \cup
                          {[id |-> nextM, conversationId |-> conv, role |-> "user",
                            content |-> msg,
                            createdAt |-> nextM]}
                     /\ nextM' = nextM + 1
                     /\ chat' = [IdleChat EXCEPT !.pc = "streaming",
                                    !.highlightId = hid, !.conversationId = cid,
                                    !.message = msg, !.status = 200, !.conv = conv]
                     /\ wireEnd' = "open"

\* ------------------------------------------- sending (page.tsx 432-529)
\* POST /api/highlights (part_003 39-77): db.highlight.create, or it throws
CreateRoute(c, ok) ==
    IF ok
    THEN LET h == [id |-> nextH, pdfId |-> c.pdfId, pageNumber |-> c.pageNumber,
                   selectedText |-> c.selectedText, createdAt |-> nextH]
         IN  /\ dbHighlights' = dbHighlights \cup {h}
             /\ nextH' = nextH + 1
             /\ send' = [IdleSend EXCEPT !.pc = "created",
                           !.conversationId = currentConversationId,
                           !.pending = pendingHighlight, !.pdf = selectedPdf,
                           !.created = Some(IncludeConversation(h, dbConversations,
                                                                dbMessages))]
    ELSE /\ send' = [IdleSend EXCEPT !.pc = "createFailed",
                           !.conversationId = currentConversationId,
                           !.pending = pendingHighlight, !.pdf = selectedPdf]
         /\ UNCHANGED <<dbHighlights, nextH>>

\* handleSend, and handleSendMessage up to its first await; the route that is
\* called handles the request when it is made, the answer travels back later
\* override: the call comes with a messageOverride, which sets
\* initialPromptSentRef (208-210)
handleSend(override) ==
    /\ showChat /\ selectedPdf # NoPdf
    /\ ~isStreaming
    /\ send.pc = "idle"
    /\ nextM < 2 * MaxTurns
    /\ Len(messages) + 2 <= MaxMessages
    /\ InFlight < MaxInFlight
    /\ LET ms == messages \o <<UserMessage(UserText), Placeholder>>
       IN  IF IsSome(pendingHighlight) /\ currentHighlightId = NoId
           THEN \* the pending highlight is saved first: POST /api/highlights
                /\ \E ok \in BOOLEAN :
                      /\ ok => nextH <= MaxHighlights
                      /\ CreateRoute(The(pendingHighlight), ok)
                /\ isStreaming' = TRUE
                /\ PanelSyncSent(override \/ initialPromptSentRef, wasStreamingRef, ms,
                                 highlights, currentHighlightId,
                                 currentConversationId, TRUE)
                /\ UNCHANGED <<dbConversations, dbMessages, nextC, nextM, srvVars>>
           ELSE IF currentHighlightId = NoId
           THEN \* if (!highlightId) return; then the finally of handleSend:
                \* a render with isStreaming set, then one with it cleared
                /\ send' = IdleSend
                /\ isStreaming' = FALSE
                /\ PanelSyncSent(override \/ initialPromptSentRef, TRUE, ms, highlights,
                                 currentHighlightId, currentConversationId, FALSE)
                /\ UNCHANGED <<dbVars, srvVars>>
           ELSE /\ send' = [IdleSend EXCEPT !.pc = "chatSent",
                                !.highlightId = currentHighlightId,
                                !.conversationId = currentConversationId,
                                !.pdf = selectedPdf]
                /\ isStreaming' = TRUE
                /\ PanelSyncSent(override \/ initialPromptSentRef, wasStreamingRef, ms,
                                 highlights, currentHighlightId,
                                 currentConversationId, TRUE)
                /\ ChatRoute(currentHighlightId, currentConversationId, UserText)
                /\ UNCHANGED <<dbHighlights, nextH>>
    /\ UNCHANGED <<homeVars, fetches, del, undo>>

\* the user sends the text of the input
Send == handleSend(FALSE) /\ UNCHANGED promptVars

\* PromoteOk with the chat request sent for the highlight id of the closure,
\* not for the id the create returned
PromoteOkStaleId ==
    /\ send.pc = "created"
    /\ LET h == The(send.created)
       IN  /\ highlights' = highlights \o <<h>>
           /\ currentHighlightId' = h.id
           /\ pendingHighlight' = None
           /\ send' = [send EXCEPT !.pc = "chatSent"]
           /\ ChatRoute(send.highlightId, send.conversationId, UserText)
    /\ PanelSync(messages, highlights', currentHighlightId', currentConversationId,
                 isStreaming)
    /\ UNCHANGED <<dbHighlights, nextH, viewerVars, promptVars, pdfs, selectedPdf, selectedText,
                   selectionRanges, showPopup, showChat, currentConversationId,
                   deletedHighlight, error, isStreaming, fetches, del, undo>>

\* handleSendMessage after the create, res.ok: lines 448-453, then 464-478
PromoteOk ==
    /\ send.pc = "created"
    /\ LET h == The(send.created)
       IN  /\ highlights' = highlights \o <<h>>
           /\ currentHighlightId' = h.id
           /\ pendingHighlight' = None
           /\ send' = [send EXCEPT !.pc = "chatSent", !.highlightId = h.id]
           /\ ChatRoute(h.id, send.conversationId, UserText)
    /\ PanelSync(messages, highlights', currentHighlightId', currentConversationId,
                 isStreaming)
    /\ UNCHANGED <<dbHighlights, nextH, viewerVars, promptVars, pdfs, selectedPdf, selectedText,
                   selectionRanges, showPopup, showChat, currentConversationId,
                   deletedHighlight, error, isStreaming, fetches, del, undo>>

\* the catch / finally of handleSend (ChatOverlay.tsx 232-247)
\* the setters of a panel that was unmounted meanwhile do nothing
SendCatch(ms, text, list, cur, conv) ==
    /\ send' = IdleSend
    /\ IF send.detached
       THEN /\ UNCHANGED isStreaming
            /\ PanelSync(messages, list, cur, conv, isStreaming)
       ELSE /\ isStreaming' = FALSE
            /\ PanelSync(ReplaceLast(ms, text), list, cur, conv, FALSE)

\* PromoteFail with the pending highlight dropped
PromoteFailDropsPending ==
    /\ send.pc = "createFailed"
    /\ SendCatch(messages, ErrCreateHighlight, highlights, currentHighlightId,
                 currentConversationId)
    /\ pendingHighlight' = None
    /\ UNCHANGED <<dbVars, viewerVars, promptVars, pdfs, selectedPdf, highlights, selectedText,
                   selectionRanges, showPopup, showChat, currentHighlightId,
                   currentConversationId, deletedHighlight, error, fetches, del,
                   undo, srvVars>>

\* handleSendMessage after the create, !res.ok or a rejected fetch: rethrown
PromoteFail ==
    /\ send.pc = "createFailed"
    /\ SendCatch(messages, ErrCreateHighlight, highlights, currentHighlightId,
                 currentConversationId)
    /\ UNCHANGED <<dbVars, pageVars, fetches, del, undo, srvVars>>

\* SrvStreamChunk that puts the text in front of fullResponse
SrvStreamChunkInFront ==
    /\ chat.pc = "streaming"
    /\ chat.n < MaxDeltas
    /\ LET t == ProviderChunk(chat.n + 1)
       IN  /\ chat' = [chat EXCEPT !.n = @ + 1, !.fullResponse = t \o @]
           /\ wire' = wire \o TextFrame(t)
    /\ UNCHANGED <<dbVars, pageVars, panelVars, flightVars, wireEnd, geminiApiKey>>

\* for await (const chunk of stream): fullResponse += text; enqueue the delta
SrvStreamChunk ==
    /\ chat.pc = "streaming"
    /\ chat.n < MaxDeltas
    /\ LET t == ProviderChunk(chat.n + 1)
       IN  /\ chat' = [chat EXCEPT !.n = @ + 1, !.fullResponse = @ \o t]
           /\ wire' = wire \o TextFrame(t)
    /\ UNCHANGED <<dbVars, pageVars, panelVars, flightVars, wireEnd, geminiApiKey>>

\* SrvStreamFail with the text received so far written as assistant message
SrvStreamFailSaves ==
    /\ chat.pc = "streaming"
    /\ dbMessages' = dbMessages \cup
          {[id |-> nextM, conversationId |-> chat.conv, role |-> "assistant",
            content |-> chat.fullResponse, createdAt |-> nextM]}
    /\ nextM' = nextM + 1
    /\ chat' = [chat EXCEPT !.pc = "failed"]
    /\ wireEnd' = "errored"
    /\ UNCHANGED <<dbHighlights, dbConversations, nextH, nextC, pageVars, panelVars,
                   flightVars, wire, geminiApiKey>>

\* the provider stream throws: catch, controller.error(error)
SrvStreamFail ==
    /\ chat.pc = "streaming"
    /\ chat' = [chat EXCEPT !.pc = "failed"]
    /\ wireEnd' = "errored"
    /\ UNCHANGED <<dbVars, pageVars, panelVars, flightVars, wire, geminiApiKey>>

\* the provider stream ended, and the assistant message is not written
SrvSaveAssistantSkipped ==
    /\ chat.pc = "streaming"
    /\ chat' = [chat EXCEPT !.pc = "saved"]
    /\ UNCHANGED <<dbVars, pageVars, panelVars, flightVars, wire, wireEnd,
                   geminiApiKey>>

\* the provider stream ended: db.message.create of the assistant message
SrvSaveAssistant ==
    /\ chat.pc = "streaming"
    /\ IF \E c \in dbConversations : c.id = chat.conv
       THEN /\ dbMessages' = dbMessages \cup
                 {[id |-> nextM, conversationId |-> chat.conv,
                   role |-> "assistant", content |-> chat.fullResponse,
                   createdAt |-> nextM]}
            /\ nextM' = nextM + 1
            /\ chat' = [chat EXCEPT !.pc = "saved"]
            /\ UNCHANGED wireEnd
       ELSE \* foreign key: the conversation was deleted meanwhile
            /\ chat' = [chat EXCEPT !.pc = "failed"]
            /\ wireEnd' = "errored"
            /\ UNCHANGED <<dbMessages, nextM>>
    /\ UNCHANGED <<dbHighlights, dbConversations, nextH, nextC, pageVars, panelVars,
                   flightVars, wire, geminiApiKey>>

\* enqueue the done frame; controller.close()
SrvEmitDone ==
    /\ chat.pc = "saved"
    /\ wire' = wire \o DoneFrame(chat.conv)
    /\ wireEnd' = "closed"
    /\ chat' = [chat EXCEPT !.pc = "closed"]
    /\ UNCHANGED <<dbVars, pageVars, panelVars, flightVars, geminiApiKey>>

\* -------------------------------- the response (page.tsx 480-528)
\* res.ok: getReader()
ChatOk ==
    /\ send.pc = "chatSent"
    /\ chat.status = 200
    /\ send' = [send EXCEPT !.pc = "reading"]
    /\ UNCHANGED <<dbVars, pageVars, panelVars, fetches, del, undo, srvVars>>

\* ChatFail that also gives up the current highlight
ChatFailForgets ==
    /\ send.pc = "chatSent"
    /\ chat.status \notin {0, 200}
    /\ currentHighlightId' = NoId
    /\ SendCatch(messages, chat.body, highlights, NoId, currentConversationId)
    /\ UNCHANGED <<dbVars, viewerVars, promptVars, pdfs, selectedPdf, highlights, selectedText,
                   selectionRanges, showPopup, showChat, currentConversationId,
                   pendingHighlight, deletedHighlight, error, fetches, del, undo,
                   srvVars>>

\* !res.ok: throw new Error(errorData.error)
ChatFail ==
    /\ send.pc = "chatSent"
    /\ chat.status \notin {0, 200}
    /\ SendCatch(messages, chat.body, highlights, currentHighlightId,
                 currentConversationId)
    /\ UNCHANGED <<dbVars, pageVars, fetches, del, undo, srvVars>>

\* reader.read() yields the next n bytes; the loop body over its lines
ReadChunk(n) ==
    /\ send.pc = "reading"
    /\ n \in 1..Len(wire)
    /\ \E r \in {HandleChunk(SubSeq(wire, 1, n))} :
       \E ms \in {IF send.detached THEN messages
                  ELSE OnStreamChunks(messages, r.texts)} :
       \E conv \in {IF r.conv # NoId THEN r.conv ELSE currentConversationId} :
           /\ wire' = SubSeq(wire, n + 1, Len(wire))
           /\ currentConversationId' = conv
           /\ IF r.preload /\ send.pdf # NoPdf
              THEN StartPreload(send.pdf)
              ELSE UNCHANGED <<fetches, error>>
           /\ IF IsSome(r.thrown)
              THEN SendCatch(ms, The(r.thrown), highlights, currentHighlightId, conv)
              ELSE /\ PanelSync(ms, highlights, currentHighlightId, conv, isStreaming)
                   /\ UNCHANGED <<isStreaming, send>>
    /\ UNCHANGED <<dbVars, selectedPdf, highlights, selectedText, selectionRanges,
                   showPopup, showChat, currentHighlightId, pendingHighlight,
                   deletedHighlight, viewerVars, promptVars, pdfs, del, undo, chat, wireEnd, geminiApiKey>>

\* ReadEnd without the finally of handleSend: isStreaming stays set
ReadEndKeepsStreaming ==
    /\ send.pc = "reading"
    /\ wire = <<>>
    /\ wireEnd = "closed"
    /\ send' = IdleSend
    /\ PanelSync(messages, highlights, currentHighlightId, currentConversationId,
                 isStreaming)
    /\ UNCHANGED <<dbVars, pageVars, isStreaming, fetches, del, undo, srvVars>>

\* reader.read() yields done: the loop ends, handleSendMessage returns, finally
ReadEnd ==
    /\ send.pc = "reading"
    /\ wire = <<>>
    /\ wireEnd = "closed"
    /\ send' = IdleSend
    /\ isStreaming' = (isStreaming /\ send.detached)
    /\ PanelSync(messages, highlights, currentHighlightId, currentConversationId,
                 isStreaming')
    /\ UNCHANGED <<dbVars, pageVars, fetches, del, undo, srvVars>>

\* reader.read() rejects (the stream was errored): rethrown to handleSend
ReadFail ==
    /\ send.pc = "reading"
    /\ wireEnd = "errored"
    /\ wire' = <<>>
    /\ SendCatch(messages, ErrNetwork, highlights, currentHighlightId,
                 currentConversationId)
    /\ UNCHANGED <<dbVars, pageVars, fetches, del, undo, chat, wireEnd, geminiApiKey>>

\* the page: documents, list refresh, selections, the chat panel opened and closed
Documents ==
    \/ \E p \in pdfs \cup {NoPdf} : SelectPdf(p)
    \/ \E f \in fetches : PreloadOk(f)

Selection ==
    \/ \E s \in Selections : TextSelect(s[1], s[2])
    \/ QueryClick
    \/ \E id \in 1..MaxHighlights : HighlightClick(id)
    \/ ChatClose

Promotion == Send \/ PromoteOk \/ PromoteFail

DeleteUndo ==
    \/ \E id \in 1..MaxHighlights : HighlightDelete(id)
    \/ DeleteOk \/ DeleteFail
    \/ UndoDelete \/ UndoOk \/ UndoFail

Turn ==
    \/ SrvStreamChunk \/ SrvStreamFail \/ SrvSaveAssistant \/ SrvEmitDone
    \/ ChatOk \/ ReadChunk(FirstFrameLen(wire)) \/ ReadEnd \/ ReadFail

\* a session of selections and chat turns
Next == Documents \/ Selection \/ PopupClose \/ Promotion \/ Turn

Spec == Init /\ [][Next]_vars

\* a session of selections and chat turns in which the provider is configured
\* or is not
InitFail ==
    /\ InitStore
    /\ pdfs = {"p1"} /\ InitViewer
    /\ InitClient
    /\ chat = IdleChat /\ wire = <<>> /\ wireEnd = "none"
    /\ geminiApiKey \in BOOLEAN

NextFail == Next \/ ChatFail

SpecFail == InitFail /\ [][NextFail]_vars

\* a session of chat turns in a panel the user scrolls: the panel is open on
\* the stored highlight, which nobody has chatted about yet
InitScroll ==
    /\ dbHighlights = {StoredHighlight}
    /\ dbConversations = {} /\ dbMessages = {}
    /\ nextH = 2 /\ nextC = 1 /\ nextM = 1
    /\ pdfs = {"p1"} /\ InitViewer /\ selectedPdf = "p1"
    /\ highlights = <<IncludeConversation(StoredHighlight, {}, {})>>
    /\ selectedText = "A" /\ selectionRanges = None
    /\ showPopup = FALSE /\ showChat = TRUE
    /\ currentHighlightId = 1 /\ currentConversationId = NoId
    /\ pendingHighlight = None /\ deletedHighlight = None /\ error = ""
    /\ initialPrompt = None /\ keyedSelection = None
    /\ messages = <<>> /\ isStreaming = FALSE /\ prevConversationIdRef = NoId
    /\ initialPromptSentRef = FALSE
    /\ isUserScrolledUp = FALSE /\ showNewMessageButton = FALSE
    /\ wasStreamingRef = FALSE /\ scrollTop = 0
    /\ fetches = {} /\ del = None /\ undo = None /\ send = IdleSend
    /\ InitServer

Scrolling ==
    \/ \E t \in ScrollTargets(messages) : UserScroll(t)
    \/ NewMessageClick

NextScroll ==
    \/ TextSelect("A", 2) \/ QueryClick \/ HighlightClick(1)
    \/ Promotion \/ Turn \/ Scrolling
    \/ \E f \in fetches : PreloadOk(f)

SpecScroll == InitScroll /\ [][NextScroll]_vars

\* a session in the viewer: documents, zoom, selections
NextViewer ==
    \/ Documents \/ zoomIn \/ zoomOut
    \/ \E rect \in RawRects : handleTextSelection("A", 1, rect)

SpecViewer == Init /\ [][NextViewer]_vars

\* a session of selections, promotions, deletes and undos; the provider is not
\* configured, so every chat request is answered 503
InitUndo ==
    /\ InitStore
    /\ pdfs = {"p1"} /\ InitViewer
    /\ InitClient
    /\ chat = IdleChat /\ wire = <<>> /\ wireEnd = "none" /\ geminiApiKey = FALSE

NextUndo == Documents \/ Selection \/ Promotion \/ ChatFail \/ DeleteUndo

SpecUndo == InitUndo /\ [][NextUndo]_vars

\* ------------------------------------------------- the chat route alone
\* a chat request of any client: POST /api/chat with a body
ChatRequest(hid, cid, msg) ==
    /\ chat.pc \in {"idle", "answered", "failed", "closed"}
    /\ nextM < 2 * MaxTurns
    /\ ChatRoute(hid, cid, msg)
    /\ UNCHANGED <<dbHighlights, nextH, pageVars, panelVars, flightVars>>

\* the store holds one highlight nobody has chatted about yet
InitRoute ==
    /\ dbHighlights = {StoredHighlight}
    /\ dbConversations = {} /\ dbMessages = {}
    /\ nextH = 2 /\ nextC = 1 /\ nextM = 1
    /\ pdfs = {"p1"} /\ InitViewer
    /\ InitClient
    /\ InitServer

NextRoute ==
    \/ \E hid \in 0..MaxHighlights, cid \in 0..MaxTurns, msg \in {<<>>, UserText} :
          ChatRequest(hid, cid, msg)
    \/ SrvStreamChunk \/ SrvStreamFail \/ SrvSaveAssistant \/ SrvEmitDone

SpecRoute == InitRoute /\ [][NextRoute]_vars

\* DELETE /api/highlights?id= called by another session of the application
OtherDelete(id) ==
    /\ \E h \in dbHighlights : h.id = id
    /\ dbHighlights' = {x \in dbHighlights : x.id # id}
    /\ dbConversations' = CascadeConversations(id)
    /\ dbMessages' = CascadeMessages(id)
    /\ UNCHANGED <<nextH, nextC, nextM, pageVars, panelVars, flightVars, srvVars>>

\* the page deletes and restores highlights that another session deletes too
NextShared ==
    \/ Documents \/ DeleteUndo
    \/ \E id \in 1..MaxHighlights : HighlightClick(id)
    \/ \E id \in 1..MaxHighlights : OtherDelete(id)

SpecShared == InitUndo /\ [][NextShared]_vars

\* the chat route called by any client while the page deletes and restores
\* highlights of the store
NextStore == NextRoute \/ Documents \/ DeleteUndo

SpecStore == InitRoute /\ [][NextStore]_vars

\* ------------------------- the reader loop on a response that is complete
\* the frames of the first k text chunks of the provider, and their text
RECURSIVE DeltaFrames(_)
DeltaFrames(k) ==
    IF k = 0 THEN <<>> ELSE DeltaFrames(k - 1) \o TextFrame(ProviderChunk(k))
RECURSIVE DeltaText(_)
DeltaText(k) == IF k = 0 THEN <<>> ELSE DeltaText(k - 1) \o ProviderChunk(k)

\* messages an error frame carries
ErrorTexts == {<<"x">>, <<"b", "a", "d", " ">> \o JSONWord}

\* the terminal frame of a response: done, or an error frame with a message
Terminals == {<<>>} \cup ErrorTexts
TerminalFrame(e) == IF e = <<>> THEN DoneFrame(1) ELSE ErrorFrame(e)

\* The turn was sent on the stored highlight (opened by a click on its overlay),
\* the response is complete and nothing of it has been read yet: k text
\* chunks, then the terminal frame e. stored: the highlight had its
\* conversation of one turn before; otherwise the turn created conversation 1.
InitReadingWire(k, e, stored, w) ==
    LET before == IF stored THEN StoredMessages ELSE {}
        first == IF stored THEN 3 ELSE 1
        user == {[id |-> first, conversationId |-> 1, role |-> "user",
                  content |-> UserText, createdAt |-> first]}
        assistant == IF e = <<>>
                     THEN {[id |-> first + 1, conversationId |-> 1,
                            role |-> "assistant", content |-> DeltaText(k),
                            createdAt |-> first + 1]}
                     ELSE {}
        loaded == <<IncludeConversation(StoredHighlight,
                       IF stored THEN {StoredConversation} ELSE {}, before)>>
        conv == IF stored THEN 1 ELSE NoId
    IN  /\ dbHighlights = {StoredHighlight}
        /\ dbConversations = {StoredConversation}
        /\ dbMessages = before \cup user \cup assistant
        /\ nextH = 2 /\ nextC = 2
        /\ nextM = first + 1 + Cardinality(assistant)
        /\ selectedPdf = "p1" /\ highlights = loaded
        /\ selectedText = "A" /\ selectionRanges = None
        /\ showPopup = FALSE /\ showChat = TRUE
        /\ currentHighlightId = 1 /\ currentConversationId = conv
        /\ pendingHighlight = None /\ deletedHighlight = None /\ error = ""
        /\ initialPrompt = None /\ keyedSelection = None
        /\ messages = CurrentMessages(loaded, 1)
                         \o <<UserMessage(UserText), Placeholder>>
        /\ isStreaming = TRUE /\ prevConversationIdRef = conv
        /\ initialPromptSentRef = FALSE
        /\ isUserScrolledUp = FALSE /\ showNewMessageButton = FALSE
        /\ wasStreamingRef = TRUE /\ scrollTop = MaxScrollTop(messages)
        /\ fetches = {} /\ del = None /\ undo = None
        /\ send = [IdleSend EXCEPT !.pc = "reading", !.highlightId = 1,
                                   !.conversationId = conv, !.pdf = "p1"]
        /\ chat = [IdleChat EXCEPT !.pc = IF e = <<>> THEN "closed" ELSE "failed",
                                   !.highlightId = 1, !.conversationId = conv,
                                   !.message = UserText, !.status = 200,
                                   !.conv = 1, !.fullResponse = DeltaText(k),
                                   !.n = k, !.body = e]
        /\ wire = w
        /\ wireEnd = "closed"
        /\ geminiApiKey = TRUE

InitReading(k, e, stored) ==
    InitReadingWire(k, e, stored, DeltaFrames(k) \o TerminalFrame(e))

\* the transport hands the response over in chunks of any size
InitStream ==
    /\ pdfs = {"p1"} /\ InitViewer
    /\ \E k \in 0..MaxFrames, e \in Terminals, stored \in BOOLEAN :
          InitReading(k, e, stored)

NextStream ==
    \/ \E n \in 1..Len(wire) : ReadChunk(n)
    \/ ReadEnd
    \/ \E f \in fetches : PreloadOk(f)

SpecStream == InitStream /\ [][NextStream]_vars

\* every chunk is one whole frame; the user may change the document meanwhile
InitFrames ==
    /\ pdfs = Pdfs /\ InitViewer
    /\ \E k \in 0..MaxFrames, e \in Terminals, stored \in BOOLEAN :
          InitReading(k, e, stored)

NextFrames == ReadChunk(FirstFrameLen(wire)) \/ ReadEnd \/ Documents

SpecFrames == InitFrames /\ [][NextFrames]_vars

\* --------------------- a response that ends with a frame that is no JSON
\* payloads JSON.parse throws a SyntaxError for: text that is no JSON, a JSON
\* text that stops short
MalformedPayloads == {<<"o", "o", "p", "s">>, <<"{", "\"", "t", "e", "x", "t", "\"", ":">>}

\* k text frames, then a complete frame (delimiter included) with the payload
InitMalformed ==
    /\ pdfs = Pdfs /\ InitViewer
    /\ \E k \in 0..MaxFrames, m \in MalformedPayloads, stored \in BOOLEAN :
          InitReadingWire(k, m, stored, DeltaFrames(k) \o Frame(m))

SpecMalformed == InitMalformed /\ [][NextFrames]_vars

\* ================================================================ claims
\* the highlight a candidate would become: its document, page and text
SameCandidate(c, h) ==
    c.pdfId = h.pdfId /\ c.pageNumber = h.pageNumber /\ c.selectedText = h.selectedText

\* the positions of the list whose text and page equal the selection's
Known(text, page, list) ==
    {i \in 1..Len(list) : list[i].selectedText = text /\ list[i].pageNumber = page}

\* the selection as a candidate
Candidate ==
    [pdfId |-> selectedPdf, pageNumber |-> The(selectionRanges).page,
     selectedText |-> selectedText]

\* the last message of the panel is the error message with this text
ErrorShown(text) ==
    Len(messages) > 0 /\ messages[Len(messages)] = ErrorMessage(text)

\* C1 - Promotion. A send with a pending highlight C and no current highlight id
\* issues one store-create for C and no chat request; when the create has
\* returned, no second create is issued, the chat request is issued for the
\* returned id, the pending slot is emptied and the current highlight id is the
\* returned id.
C1_Step ==
    /\ (~isStreaming /\ isStreaming' /\ IsSome(pendingHighlight)
          /\ currentHighlightId = NoId)
       => /\ send'.pc \in {"created", "createFailed"}
          /\ chat' = chat
          /\ dbHighlights \subseteq dbHighlights'
          /\ Cardinality(dbHighlights' \ dbHighlights)
               = (IF send'.pc = "created" THEN 1 ELSE 0)
          /\ \A h \in dbHighlights' \ dbHighlights :
                /\ SameCandidate(The(pendingHighlight), h)
                /\ h.id = The(send'.created).id
    /\ (send.pc \in {"created", "createFailed"} /\ chat' # chat)
       => send.pc = "created"
    /\ (send.pc = "created" /\ send'.pc # send.pc)
       => /\ send'.pc = "chatSent"
          /\ dbHighlights' = dbHighlights
          /\ \E h \in dbHighlights : h.id = The(send.created).id
          /\ chat' # chat
          /\ chat'.highlightId = The(send.created).id
          /\ pendingHighlight' = None
          /\ currentHighlightId' = The(send.created).id
C1_Promotion == [][C1_Step]_vars

\* the promotion has happened: the chat request is out for the returned id
C1_Witness ==
    /\ send.pc = "chatSent" /\ IsSome(send.created)
    /\ chat.highlightId = The(send.created).id
    /\ currentHighlightId = The(send.created).id
    /\ pendingHighlight = None

\* C4 - Replacing a pending highlight. Confirming a selection that matches no
\* known highlight leaves exactly that selection pending, whatever was pending
\* before, and issues no request to the store; a highlight is created only
\* for the candidate that is pending when the message is sent; there is never
\* more than one pending highlight.
C4_Step ==
    /\ Len(pendingHighlight') <= 1
    /\ (showPopup /\ ~showPopup'
          /\ Known(selectedText, The(selectionRanges).page, highlights) = {})
       => /\ pendingHighlight' = Some(Candidate)
          /\ UNCHANGED <<dbVars, send>>
    /\ nextH' # nextH
       => /\ IsSome(pendingHighlight)
          /\ \A h \in dbHighlights' \ dbHighlights :
                SameCandidate(The(pendingHighlight), h)
C4_Replace == [][C4_Step]_vars

\* a candidate is pending that differs from the stored highlight, nothing was
\* created for any candidate, and a further selection that matches nothing is
\* about to be confirmed in its place
C4_Witness ==
    /\ IsSome(pendingHighlight)
    /\ nextH = 2 /\ send = IdleSend
    /\ showPopup /\ IsSome(selectionRanges)
    /\ Candidate # The(pendingHighlight)
    /\ Known(selectedText, The(selectionRanges).page, highlights) = {}

\* C5 - Promotion failure. When the store-create of the pending highlight
\* fails, no chat request is issued, the failed send changes neither the
\* pending highlight nor the current highlight id, the chat state is idle
\* again, and the panel that sent the message, unless it was unmounted
\* meanwhile, shows the error in place of the assistant message (the current
\* highlight id being empty).
C5_Step ==
    /\ (send.pc = "idle" /\ send'.pc = "createFailed")
       => UNCHANGED <<chat, pendingHighlight, currentHighlightId, dbVars>>
    /\ (send.pc = "createFailed" /\ send'.pc # send.pc)
       => /\ send' = IdleSend
          /\ ~isStreaming'
          /\ UNCHANGED <<chat, pendingHighlight, currentHighlightId, dbVars>>
          /\ (currentHighlightId = NoId /\ ~send.detached)
                => ErrorShown(ErrCreateHighlight)'
C5_PromotionFailure == [][C5_Step]_vars

\* the create has failed: the candidate is still pending, the chat is idle
\* and shows the error
C5_Witness ==
    /\ send = IdleSend /\ ~isStreaming
    /\ IsSome(pendingHighlight) /\ currentHighlightId = NoId
    /\ ErrorShown(ErrCreateHighlight)
    /\ chat = IdleChat

\* C6 - Uniqueness. No two highlights of the store have the same document,
\* selectedText and pageNumber.
C6_Unique ==
    \A g \in dbHighlights, h \in dbHighlights :
        (g.pdfId = h.pdfId /\ g.selectedText = h.selectedText
            /\ g.pageNumber = h.pageNumber) => g = h

\* C7 - Identity resolution. Confirming a selection opens a known highlight
\* exactly when some highlight of the list has the same text and the same page,
\* and then the first such highlight of the list; otherwise (also when the text
\* is a proper substring or superstring of a known text, or the page differs)
\* the selection becomes the pending highlight.
C7_Step ==
    (showPopup /\ ~showPopup')
    => LET known == Known(selectedText, The(selectionRanges).page, highlights)
       IN  IF known # {}
           THEN /\ \E i \in known :
                      /\ \A j \in known : i <= j
                      /\ currentHighlightId' = highlights[i].id
                /\ pendingHighlight' = None
           ELSE /\ pendingHighlight' = Some(Candidate)
                /\ currentHighlightId' = NoId
C7_Resolution == [][C7_Step]_vars

\* a selection was confirmed whose text is a proper superstring of a listed
\* highlight's text on the same page, or whose text is listed on another page
\* only: it is pending
C7_Witness ==
    /\ IsSome(pendingHighlight) /\ ~showPopup /\ IsSome(selectionRanges)
    /\ The(pendingHighlight) = Candidate
    /\ \E i \in 1..Len(highlights) :
          \/ /\ ProperSubstring(highlights[i].selectedText, selectedText)
             /\ highlights[i].pageNumber = Candidate.pageNumber
          \/ /\ highlights[i].selectedText = selectedText
             /\ highlights[i].pageNumber # Candidate.pageNumber

\* C8 - Delete then undo. The delete hands back the highlight as the store
\* held it and removes it with its conversation and messages, nothing else;
\* the restore puts back exactly the rows of the snapshot it is given: the
\* highlight read from the store afterwards equals the snapshot (id, createdAt,
\* conversation id, messages with their ids, roles, contents and order) and
\* no other row is touched; the snapshot the client keeps for the undo is the
\* one the delete handed back.
C8_Rows(t) ==
    [h |-> {[id |-> t.id, pdfId |-> t.pdfId, pageNumber |-> t.pageNumber,
             selectedText |-> t.selectedText, createdAt |-> t.createdAt]},
     c |-> {[id |-> c.id, highlightId |-> t.id, createdAt |-> c.createdAt] :
              c \in {t.conversation[i] : i \in 1..Len(t.conversation)}},
     m |-> UNION {{[id |-> c.messages[k].id, conversationId |-> c.id,
                    role |-> c.messages[k].role, content |-> c.messages[k].content,
                    createdAt |-> c.messages[k].createdAt] :
                      k \in 1..Len(c.messages)} :
                   c \in {t.conversation[i] : i \in 1..Len(t.conversation)}}]
C8_Step ==
    /\ (del = None /\ IsSome(del') /\ The(del').status = 200)
       => LET t == The(The(del').deleted)
          IN  /\ Some(t) = FindUniqueHighlight(The(del').id)
              /\ dbHighlights' = dbHighlights \ C8_Rows(t).h
              /\ dbConversations' = dbConversations \ C8_Rows(t).c
              /\ dbMessages' = dbMessages \ C8_Rows(t).m
              /\ C8_Rows(t).h \subseteq dbHighlights
              /\ C8_Rows(t).c \subseteq dbConversations
              /\ C8_Rows(t).m \subseteq dbMessages
    /\ (IsSome(del) /\ The(del).status = 200 /\ del' = None)
       => deletedHighlight' = The(del).deleted
    /\ (undo = None /\ IsSome(undo') /\ The(undo').status = 200)
       => LET t == The(deletedHighlight)
          IN  /\ dbHighlights' = dbHighlights \cup C8_Rows(t).h
              /\ dbConversations' = dbConversations \cup C8_Rows(t).c
              /\ dbMessages' = dbMessages \cup C8_Rows(t).m
              /\ FindUniqueHighlight(t.id)' = Some(t)
              /\ The(undo').restored = Some(t)
C8_RoundTrip == [][C8_Step]_vars

\* the stored highlight was deleted with its conversation and both messages,
\* and the undo has put it back: the store is the one before the delete
C8_Witness ==
    /\ IsSome(undo) /\ The(undo).status = 200
    /\ IsSome(The(The(undo).restored).conversation)
    /\ Len(The(The(The(undo).restored).conversation).messages) = 2
    /\ dbHighlights = {StoredHighlight}
    /\ dbConversations = {StoredConversation}
    /\ dbMessages = StoredMessages

\* C2 - Streaming with split frames. Whatever the chunks a well-formed response
\* (text-delta frames, then one done frame) arrives in, when the turn has
\* ended and no list refresh is under way the assistant message holds the
\* concatenation of all delta texts and the current conversation id is the one
\* of the done frame.
C2_Reassembled ==
    (send.pc = "idle" /\ chat.pc = "closed" /\ fetches = {})
    => /\ Len(messages) > 0
       /\ messages[Len(messages)].role = "assistant"
       /\ messages[Len(messages)].content = chat.fullResponse
       /\ currentConversationId = chat.conv

\* C3 - Error frame. When a response ended with an error frame, the turn has
\* ended with the message of that frame shown as the last message of the panel.
C3_ErrorShown ==
    (send.pc = "idle" /\ chat.pc = "failed") => ErrorShown(chat.body)

\* C9 - Done frame. The step that reads the done frame of the turn, a document
\* being open, sets the current conversation id to the id of the frame and
\* starts a fetch of the highlight list of the open document.
C9_Step ==
    (send.pc = "reading" /\ wire' # wire /\ selectedPdf # NoPdf
       /\ SubSeq(wire, 1, FirstFrameLen(wire)) = DoneFrame(chat.conv))
    => /\ currentConversationId' = chat.conv
       /\ \E f \in fetches' \ fetches : f.pdfId = selectedPdf
C9_DoneFrame == [][C9_Step]_vars

\* C10 - Per-turn persistence. The user messages of the conversation of the
\* request being handled, the one of this turn being the latest; the assistant
\* message of this turn; the frames on the wire.
C10_Users ==
    {m \in dbMessages : m.conversationId = chat.conv /\ m.role = "user"}
C10_Turn ==
    {m \in dbMessages :
        /\ m.conversationId = chat.conv
        /\ \A u \in C10_Users : m.id >= u.id}
C10_AssistantSaved ==
    chat.status = 200 /\ \E m \in C10_Turn : m.role = "assistant"
C10_DoneEmitted ==
    /\ chat.status = 200
    /\ Len(wire) >= Len(DoneFrame(chat.conv))
    /\ SubSeq(wire, Len(wire) - Len(DoneFrame(chat.conv)) + 1, Len(wire))
          = DoneFrame(chat.conv)
\* the user message is in the store from the moment the response is a stream,
\* before any frame; a completed turn has stored one user message and one
\* assistant message, which holds the text streamed
C10_OnePair ==
    /\ chat.status = 200
       => \E u \in C10_Turn : u.role = "user" /\ u.content = chat.message
    /\ C10_DoneEmitted
       => /\ Cardinality(C10_Turn) = 2
          /\ \E a \in C10_Turn : a.role = "assistant" /\ a.content = chat.fullResponse
\* as the claim has it: the assistant message is stored after the terminal frame
C10_Original ==
    /\ C10_OnePair
    /\ C10_AssistantSaved => C10_DoneEmitted
\* the assistant message is stored after the last text-delta frame and before
\* the done frame: storing it emits nothing, the only frame emitted after it is
\* the done frame, and the done frame is emitted only when it is stored
C10_Step ==
    /\ (~C10_AssistantSaved /\ C10_AssistantSaved')
       => wire' = wire /\ ~C10_DoneEmitted
    /\ (chat.pc \in {"streaming", "saved"} /\ C10_AssistantSaved /\ wire' # wire)
       => wire' = wire \o DoneFrame(chat.conv)
C10_Persistence ==
    /\ [](C10_OnePair /\ (C10_DoneEmitted => C10_AssistantSaved))
    /\ [][C10_Step]_vars

\* a turn has completed: a text-delta frame, then the done frame
C10_Witness == C10_DoneEmitted /\ chat.n >= 1 /\ chat.pc = "closed"

\* C11 - One conversation per highlight. A chat request without a conversation
\* id that gets as far as the conversation uses the conversation of the
\* highlight if the store holds one and creates one for the highlight
\* otherwise; whatever the turns did, no highlight owns two conversations.
C11_AtMostOne ==
    \A c1, c2 \in dbConversations : c1.highlightId = c2.highlightId => c1 = c2
C11_Step ==
    (chat' # chat /\ chat'.pc = "streaming" /\ chat.pc # "streaming"
       /\ chat'.conversationId = NoId)
    => IF \E c \in dbConversations : c.highlightId = chat'.highlightId
       THEN /\ dbConversations' = dbConversations
            /\ \E c \in dbConversations :
                  c.highlightId = chat'.highlightId /\ c.id = chat'.conv
       ELSE /\ Cardinality(dbConversations') = Cardinality(dbConversations) + 1
            /\ \E c \in dbConversations' \ dbConversations :
                  c.highlightId = chat'.highlightId /\ c.id = chat'.conv
C11_OneConversation == []C11_AtMostOne /\ [][C11_Step]_vars

\* a second turn without a conversation id is streaming in the conversation
\* the first turn created
C11_Witness ==
    /\ chat.pc = "streaming" /\ chat.conversationId = NoId
    /\ Cardinality(dbConversations) = 1 /\ nextC = 2
    /\ Cardinality({m \in dbMessages : m.role = "user" /\ m.conversationId = chat.conv}) = 2

\* C12 - Malformed frame. The read of a complete frame whose payload is not
\* valid JSON ends the turn: the error is thrown out of the reader loop, the
\* send is over and the panel is idle again.
C12_Step ==
    (send.pc = "reading" /\ ~send.detached /\ wire # <<>>
       /\ SubSeq(wire, 1, FirstFrameLen(wire)) = Frame(chat.body)
       /\ chat.body \in MalformedPayloads /\ wire' # wire)
    => /\ send' = IdleSend
       /\ ~isStreaming'
C12_Malformed == [][C12_Step]_vars

\* C13 - Server framing. A response stream that has ended consists of the
\* text-delta frames of the chunks the provider yielded, followed by exactly
\* one terminal frame and nothing after it: the done frame with the
\* conversation id, or an error frame.
C13_Deltas == DeltaFrames(chat.n)
C13_Framing ==
    wireEnd \in {"closed", "errored"}
    => /\ StartsWith(wire, C13_Deltas)
       /\ LET rest == Slice(wire, Len(C13_Deltas))
          IN  \/ rest = DoneFrame(chat.conv)
              \/ /\ StartsWith(rest, DataPrefix \o PreError)
                 /\ FirstFrameLen(rest) = Len(rest)

\* C14 - Abandonment. Closing the chat panel while a highlight is pending and
\* no send is under way empties the pending slot and sends nothing to the
\* store; a highlight is only ever created for the candidate that is in the
\* pending slot, with the panel open, when the message is sent, so none is
\* created for the abandoned candidate.
C14_Step ==
    /\ (showChat /\ ~showChat' /\ IsSome(pendingHighlight) /\ send.pc = "idle")
       => /\ pendingHighlight' = None
          /\ UNCHANGED <<dbVars, send, chat>>
    /\ (send.pc = "idle" /\ send'.pc \in {"created", "createFailed"})
       => /\ showChat /\ IsSome(pendingHighlight)
          /\ send'.pending = pendingHighlight
          /\ \A h \in dbHighlights' \ dbHighlights :
                SameCandidate(The(pendingHighlight), h)
    /\ dbHighlights' # dbHighlights
       => send.pc = "idle" /\ send'.pc = "created"
C14_Abandon == [][C14_Step]_vars

\* the panel was closed on a pending highlight: the slot is empty, nothing was
\* created and no send is under way
C14_Witness ==
    /\ ~showChat /\ selectedText = "" /\ IsSome(selectionRanges)
    /\ currentHighlightId = NoId /\ pendingHighlight = None
    /\ nextH = 2 /\ dbHighlights = {StoredHighlight} /\ send = IdleSend

\* C15 - Delta ordering. When the reader takes a text-delta frame off the
\* response (the panel that sent the message being mounted), the last message
\* of the panel is the placeholder of this turn, behind the user message of this
\* turn, and the step appends the text of the frame to it and changes no
\* other message.
C15_Step ==
    \A k \in 1..MaxFrames :
       (send.pc = "reading" /\ ~send.detached /\ wire # <<>> /\ send' = send
          /\ wire' = Slice(wire, FirstFrameLen(wire))
          /\ SubSeq(wire, 1, FirstFrameLen(wire)) = TextFrame(ProviderChunk(k)))
       => LET n == Len(messages)
          IN  /\ n >= 2
              /\ messages[n].id = NoId /\ messages[n].role = "assistant"
              /\ messages[n - 1] = UserMessage(UserText)
              /\ messages' = [messages EXCEPT ![n].content = @ \o ProviderChunk(k)]
\* while the response is read, the placeholder holds the texts of the frames
\* read so far in the order the route sent them, and all of them once the
\* response has been read to its end
C15_Appended ==
    (send.pc = "reading" /\ ~send.detached)
    => LET content == messages[Len(messages)].content
       IN  /\ Len(messages) >= 2
           /\ StartsWith(chat.fullResponse, content)
           /\ (wire = <<>> /\ wireEnd = "closed") => content = chat.fullResponse
C15_Ordering == []C15_Appended /\ [][C15_Step]_vars

\* two deltas have been appended to the placeholder of the turn, in order
C15_Witness ==
    /\ send.pc = "reading" /\ ~send.detached
    /\ messages[Len(messages)] =
          [Placeholder EXCEPT !.content = ProviderChunk(1) \o ProviderChunk(2)]
    /\ messages[Len(messages) - 1] = UserMessage(UserText)

\* C16 - Tombstone lifecycle. The client holds at most one tombstone. The
\* tombstone changes only when a delete has succeeded (it becomes the deleted
\* highlight) and when an undo has succeeded (it becomes empty); while it is
\* held and no undo is under way the highlight it names is not in the store.
\* An undo sends a request only while a tombstone is held, and the store
\* restores only the highlight of the tombstone, which it does not hold.
C16_Held ==
    /\ Len(deletedHighlight) <= 1
    /\ (IsSome(deletedHighlight) /\ undo = None)
       => \A h \in dbHighlights : h.id # The(deletedHighlight).id
C16_Step ==
    /\ deletedHighlight' # deletedHighlight
       => \/ /\ IsSome(del) /\ The(del).status = 200 /\ del' = None
             /\ deletedHighlight' = The(del).deleted
             /\ IsSome(deletedHighlight')
          \/ /\ IsSome(undo) /\ The(undo).status = 200 /\ undo' = None
             /\ deletedHighlight' = None
    /\ (IsSome(undo) /\ The(undo).status = 200 /\ undo' = None)
       => deletedHighlight' = None
    /\ (undo = None /\ undo' # None)
       => /\ IsSome(deletedHighlight)
          /\ \A h \in dbHighlights' \ dbHighlights :
                h.id = The(deletedHighlight).id
          /\ Cardinality(dbHighlights' \ dbHighlights)
                = (IF The(undo').status = 200 THEN 1 ELSE 0)
    /\ (deletedHighlight = None /\ undo = None) => undo' = None
C16_Tombstone == []C16_Held /\ [][C16_Step]_vars

\* a deleted highlight is back behind a highlight created after it, and the
\* tombstone is empty: a further undo has nothing to send
C16_Witness ==
    /\ deletedHighlight = None /\ undo = None /\ del = None
    /\ Len(highlights) = 2 /\ highlights[1].id = 2 /\ highlights[2].id = 1
    /\ \E h \in dbHighlights : h.id = 1

\* C19 - Configuration error. The chat route answers the configuration error
\* without touching the store, and a turn that ends with the configuration
\* error has created no highlight: the store holds no highlight that was
\* created by the send that now fails.
C19_Step ==
    /\ (chat' # chat /\ chat'.status = 503) => UNCHANGED dbVars
    /\ (send.pc = "chatSent" /\ chat.status = 503 /\ send'.pc = "idle")
       => ~\E h \in dbHighlights :
              IsSome(send.created) /\ h.id = The(send.created).id
C19_NoMutation == [][C19_Step]_vars

\* C20 - Failure after promotion. When a send that has promoted the pending
\* highlight fails afterwards (the chat answer is not OK, the reader throws,
\* the transport fails), the step leaves the store's highlights, the list, the
\* current highlight id and the pending slot as they are, and the promoted
\* highlight is in the store; a send with an empty pending slot or with a
\* current highlight id creates nothing.
C20_Failing ==
    /\ send.pc \in {"chatSent", "reading"} /\ IsSome(send.created)
    /\ send'.pc = "idle"
    /\ ~(send.pc = "reading" /\ wire = <<>> /\ wireEnd = "closed")
C20_Step ==
    /\ C20_Failing
       => /\ UNCHANGED <<dbHighlights, highlights, currentHighlightId,
                         pendingHighlight>>
          /\ \E h \in dbHighlights : h.id = The(send.created).id
    /\ (send.pc = "idle" /\ send' # send
          /\ (pendingHighlight = None \/ currentHighlightId # NoId))
       => /\ send'.pc \notin {"created", "createFailed"}
          /\ dbHighlights' = dbHighlights
C20_AfterPromotion == [][C20_Step]_vars

\* the turn of a promoted highlight has failed: the highlight is stored and
\* listed, it is the current one, and nothing is pending
C20_Witness ==
    /\ send = IdleSend /\ ~isStreaming
    /\ (ErrorShown(ErrNetwork) \/ ErrorShown(ErrKey))
    /\ currentHighlightId = 2 /\ pendingHighlight = None
    /\ \E h \in dbHighlights : h.id = 2
    /\ FindById(2, highlights) # 0

\* the list after is the list before with messages added at its end, or with
\* text added to its last message
Appended(before, after) ==
    \/ /\ Len(after) > Len(before)
       /\ SubSeq(after, 1, Len(before)) = before
    \/ /\ Len(after) = Len(before) /\ Len(before) > 0
       /\ SubSeq(after, 1, Len(before) - 1) = SubSeq(before, 1, Len(before) - 1)
       /\ after[Len(after)].role = before[Len(before)].role
       /\ Len(after[Len(after)].content) > Len(before[Len(before)].content)
       /\ SubSeq(after[Len(after)].content, 1, Len(before[Len(before)].content))
             = before[Len(before)].content

\* C17 - Auto-scroll rule. When new content arrives in the message list (a
\* message is added at its end, text is added to its last message), the view
\* is at the bottom afterwards if and only if it was at or near the bottom
\* when the content arrived; content that arrives while the view is further
\* up leaves the scroll position where it is.
C17_Arrives ==
    /\ selectedPdf # NoPdf /\ selectedPdf' # NoPdf
    /\ Appended(messages, messages')
C17_Step ==
    C17_Arrives
       => /\ (scrollTop' = MaxScrollTop(messages')) <=> IsAtBottom(messages, scrollTop)
          /\ ~IsAtBottom(messages, scrollTop) => scrollTop' = scrollTop
C17_AutoScroll == [][C17_Step]_vars

\* a turn of the panel ends: isStreaming is cleared, or was set and cleared
\* within one call of handleSend
C18_Ends ==
    \/ isStreaming /\ ~isStreaming'
    \/ /\ ~isStreaming /\ ~isStreaming' /\ send = IdleSend /\ send' = IdleSend
       /\ Len(messages') = Len(messages) + 2

\* C18 - Scroll affordance. While a stream runs with the view not at the
\* bottom, content that arrives leaves the scroll position alone; the
\* new-message button is not visible when such a stream starts, it becomes
\* visible only when streaming ends, and it is visible after a stream that
\* ends with the view not at the bottom; a click on it and a scroll to the
\* bottom hide it.
C18_Step ==
    /\ (isStreaming /\ isStreaming' /\ messages' # messages
          /\ ~IsAtBottom(messages, scrollTop))
       => scrollTop' = scrollTop
    /\ (~isStreaming /\ isStreaming' /\ ~IsAtBottom(messages', scrollTop'))
       => ~showNewMessageButton'
    /\ (~showNewMessageButton /\ showNewMessageButton') => C18_Ends
    /\ (isStreaming /\ ~isStreaming' /\ selectedPdf' # NoPdf
          /\ ~IsAtBottom(messages, scrollTop))
       => showNewMessageButton' \/ IsAtBottom(messages', scrollTop')
    /\ NewMessageClick => ~showNewMessageButton'
    /\ ((\E t \in ScrollTargets(messages) : UserScroll(t))
          /\ IsAtBottom(messages', scrollTop'))
       => ~showNewMessageButton'
C18_Affordance == [][C18_Step]_vars

\* C21 - Conversation existence. In every state of the store each conversation
\* has at least one message and each message belongs to a conversation of the
\* store, so a highlight has a conversation exactly when a message of it is
\* stored; every step that adds a conversation adds a message of it.
C21_Paired ==
    /\ \A c \in dbConversations : \E m \in dbMessages : m.conversationId = c.id
    /\ \A m \in dbMessages : \E c \in dbConversations : c.id = m.conversationId
    /\ \A c \in dbConversations : \E h \in dbHighlights : h.id = c.highlightId
C21_Step ==
    \A c \in dbConversations' \ dbConversations :
        \E m \in dbMessages' \ dbMessages : m.conversationId = c.id
C22_Step ==
    (ReadFail /\ ~send.detached)
       => /\ Len(messages') > 0
          /\ messages'[Len(messages')] = ErrorMessage(ErrNetwork)
          /\ send' = IdleSend /\ ~isStreaming'
          /\ UNCHANGED <<dbVars, chat, fetches, del, undo>>
C22_TransportError == [][C22_Step]_vars

\* C23 - Not found. A delete of an id the store does not know is answered 404
\* and leaves the store as it is; when the page has the answer it shows an
\* error and starts a fetch of the list of the open document.
C23_Step ==
    /\ ((\E id \in 1..MaxHighlights : HighlightDelete(id)) /\ The(del').status = 404)
       => UNCHANGED dbVars
    /\ (DeleteFail /\ The(del).status = 404)
       => /\ error' # ""
          /\ \E f \in fetches' \ fetches : f.pdfId = selectedPdf
C23_NotFound == [][C23_Step]_vars

\* the rectangle of a style, and of a raw rectangle
SameRect(style, rect) ==
    /\ RatEq(style.left, Px(rect.left)) /\ RatEq(style.top, Px(rect.top))
    /\ RatEq(style.width, Px(rect.right - rect.left))
    /\ RatEq(style.height, Px(rect.bottom - rect.top))

\* the extent of an overlay: the raw extent, and 10 at 100% when that is more
Extent(style, raw, s) ==
    RatEq(style, RatMax(Px(raw), TimesScale(Px(MinOverlay), s)))

C24_Step ==
    selectionRanges' # selectionRanges
       => LET style == OverlayStyle(The(selectionRanges'), scale')
              rect == The(selectionRect')
          IN  /\ RatEq(style.left, Px(rect.left))
              /\ RatEq(style.top, Px(rect.top))
              /\ Extent(style.width, rect.right - rect.left, scale')
              /\ Extent(style.height, rect.bottom - rect.top, scale')
C25_SingleTurn ==
    (showChat /\ selectedPdf # NoPdf /\ send.pc # "idle") => isStreaming

\* the conversation id belongs to a conversation of the highlight id
ConversationOf(cid, hid) ==
    \E c \in dbConversations : c.id = cid /\ c.highlightId = hid

\* C26 - The current conversation id, when it is set, is the id of the
\* conversation of the current highlight; and a chat request that carries a
\* conversation id carries the id of the conversation of its highlight id.
C26_Current ==
    currentConversationId # NoId
       => ConversationOf(currentConversationId, currentHighlightId)
C26_Step ==
    (send'.pc = "chatSent" /\ send.pc # "chatSent" /\ send'.conversationId # NoId)
       => \E c \in dbConversations :
             c.id = send'.conversationId /\ c.highlightId = send'.highlightId
C26_SameHighlight == []C26_Current /\ [][C26_Step]_vars

\* ---------------------------------------------------------------------------
\* Two documents, the user picked p1 and then p2 in the select before either
\* list answered: each change of selectedPdf ran the preload effect, so two
\* list fetches are in flight (page.tsx 96-101, 686-690)
InitDocs ==
    /\ InitStore
    /\ pdfs = Pdfs /\ InitViewer
    /\ selectedPdf = "p2" /\ highlights = <<>>
    /\ selectedText = "" /\ selectionRanges = None
    /\ showPopup = FALSE /\ showChat = FALSE
    /\ currentHighlightId = NoId /\ currentConversationId = NoId
    /\ pendingHighlight = None /\ deletedHighlight = None /\ error = ""
    /\ initialPrompt = None /\ keyedSelection = None
    /\ messages = <<>> /\ isStreaming = FALSE /\ prevConversationIdRef = NoId
    /\ initialPromptSentRef = FALSE
    /\ isUserScrolledUp = FALSE /\ showNewMessageButton = FALSE
    /\ wasStreamingRef = FALSE /\ scrollTop = 0
    /\ fetches = {[pdfId |-> p, resp |-> FindManyByPdf(p)] : p \in Pdfs}
    /\ del = None /\ undo = None /\ send = IdleSend
    /\ chat = IdleChat /\ wire = <<>> /\ wireEnd = "none" /\ geminiApiKey = FALSE

NextDocs ==
    \/ Documents
    \/ TextSelect("A", 2) \/ QueryClick
    \/ \E id \in 1..MaxHighlights : HighlightClick(id)
    \/ Promotion \/ ChatFail
    \/ DeleteUndo

SpecDocs == InitDocs /\ [][NextDocs]_vars

\* ---------------------------------------------------------------------------
\* C27: the current highlight id, when it is not empty, names a highlight of
\* the in-memory highlight list, whatever delete, switch of document or list
\* refresh happened since the highlight was opened.
InList(id, list) ==
    \E i \in 1..Len(list) : list[i].id = id

C27_InList ==
    currentHighlightId # NoId => InList(currentHighlightId, highlights)

\* ---------------------------------------------------------------------------
\* C28: every highlight of the in-memory highlight list belongs to the
\* selected document, after any interleaving of switches of document, list
\* fetches, promotions and undos.
C28_OfSelected ==
    \A i \in 1..Len(highlights) : highlights[i].pdfId = selectedPdf

\* ---------------------------------------------------------------------------
\* C29 (as stated): the in-memory highlight list changes only by being
\* replaced wholesale with the answer of a list-by-document fetch; a
\* promotion, a delete or an undo never patches it in place.
C29_Replaced ==
    \E f \in fetches : f \notin fetches' /\ highlights' = f.resp

C29_Patched ==
    \/ /\ send.pc = "created" /\ send'.pc = "chatSent"
       /\ highlights' = highlights \o <<The(send.created)>>
    \/ /\ IsSome(del) /\ ~IsSome(del') /\ The(del).status = 200
       /\ highlights' = FilterOut(highlights, The(del).id)
    \/ /\ IsSome(undo) /\ ~IsSome(undo') /\ The(undo).status = 200
       /\ highlights' = highlights \o <<The(The(undo).restored)>>

C29_Step ==
    /\ \A f \in fetches \ fetches' : highlights' = f.resp
    /\ highlights' # highlights => (C29_Replaced \/ C29_Patched)

C30_Opens ==
    /\ send.pc = "idle" /\ ~isStreaming /\ selectedPdf # NoPdf
    /\ QueryClick \/ \E id \in 1..MaxHighlights : HighlightClick(id)
    /\ \/ currentHighlightId' # currentHighlightId
       \/ IsSome(pendingHighlight') /\ pendingHighlight' # pendingHighlight

C30_Step ==
    C30_Opens => messages' = CurrentMessages(highlights, currentHighlightId')

C30_Switch == [][C30_Step]_vars

\* ---------------------------------------------------------------------------
\* C31: the server writes the user and the assistant message of a chat
\* request only to a conversation owned by the highlightId of the request; a
\* conversationId that names the conversation of another highlight never
\* makes the messages land there.
C31_Step ==
    \A m \in dbMessages' \ dbMessages :
        \E c \in dbConversations' :
            c.id = m.conversationId /\ c.highlightId = chat'.highlightId

C31_OwnConversation == [][C31_Step]_vars

\* ---------------------------------------------------------------------------
\* C32: a turn ends completed only if its done frame was observed. When the
\* response stream ends and the reader has handled neither a done frame nor
\* an error frame (the done frame the server emitted was lost), the turn ends
\* errored: the panel shows an error.
ErrorContents ==
    {ErrCreateHighlight, ErrConversationNotFound, ErrKey, ErrRequired,
     ErrProcess, ErrNetwork} \cup ErrorTexts

\* the turn was sent without conversation id and no done frame has set one
C32_NoDoneSeen ==
    send.conversationId = NoId /\ currentConversationId = NoId

C32_Step ==
    (ReadEnd /\ ~send.detached /\ chat.pc = "closed" /\ C32_NoDoneSeen)
       => /\ Len(messages') > 0
          /\ messages'[Len(messages')].content \in ErrorContents

C32_DoneRequired == [][C32_Step]_vars

\* ---------------------------------------------------------------------------
\* C33: when the provider stream fails before it completes, no assistant
\* message is persisted for the turn; the user message of the turn stays
\* persisted and the conversation is kept.
C33_Failed == chat.pc = "failed" /\ chat.status = 200

C33_Kept ==
    C33_Failed
       => /\ \E c \in dbConversations : c.id = chat.conv
          /\ \E u \in C10_Turn : u.role = "user" /\ u.content = chat.message
          /\ ~\E a \in C10_Turn : a.role = "assistant"

C33_Step ==
    (chat.pc = "streaming" /\ chat'.pc = "failed") => UNCHANGED dbVars

C33_StreamFailure == []C33_Kept /\ [][C33_Step]_vars

\* the provider failed after it had yielded a chunk, in the second turn of a
\* conversation
C33_Witness ==
    /\ C33_Failed /\ chat.n >= 1 /\ wireEnd = "errored"
    /\ Cardinality(C10_Users) = 2

\* ---------------------------------------------------------------------------
\* C34: closing the chat panel while a turn is streaming does not cancel the
\* request. The close leaves the send, the response and the panel's messages
\* alone; the done frame read with the panel closed still sets the
\* conversation id and starts a list refresh, and the answer of that refresh
\* holds the user message and the assistant message of the turn.
C34_Found(list) ==
    \E i \in 1..Len(list) :
        /\ IsSome(list[i].conversation)
        /\ LET ms == The(list[i].conversation).messages
           IN  /\ The(list[i].conversation).id = chat.conv
               /\ Len(ms) >= 2
               /\ ms[Len(ms) - 1].role = "user"
               /\ ms[Len(ms) - 1].content = chat.message
               /\ ms[Len(ms)].role = "assistant"
               /\ ms[Len(ms)].content = chat.fullResponse

C34_DoneRead ==
    /\ send.pc = "reading" /\ wire # <<>> /\ wire' # wire
    /\ SubSeq(wire, 1, FirstFrameLen(wire)) = DoneFrame(chat.conv)

C34_Step ==
    /\ (showChat /\ ~showChat' /\ send.pc # "idle")
          => UNCHANGED <<send, chat, wire, wireEnd, messages, isStreaming>>
    /\ (C34_DoneRead /\ ~showChat /\ selectedPdf # NoPdf)
          => /\ currentConversationId' = chat.conv
             /\ \E f \in fetches' : C34_Found(f.resp)

C34_CloseMidStream == [][C34_Step]_vars

\* the panel was closed during the turn, the done frame has been read and the
\* refresh it started is in flight
C34_Witness ==
    /\ ~showChat /\ selectedPdf # NoPdf
    /\ send.pc = "reading" /\ wire = <<>> /\ chat.pc = "closed"
    /\ currentConversationId = chat.conv
    /\ \E f \in fetches : C34_Found(f.resp)

\* ---------------------------------------------------------------------------
\* A session in which every request that was made is answered and every
\* response stream ends or fails: the create and the chat request return, the
\* provider stream ends or throws, the reader gets every chunk and the end of
\* the stream, a list fetch is answered.
NextLive ==
    \/ Documents
    \/ TextSelect("A", 2) \/ QueryClick \/ HighlightClick(1) \/ ChatClose
    \/ Promotion \/ Turn \/ ChatFail

Returns ==
    /\ WF_vars(PromoteOk \/ PromoteFail)
    /\ WF_vars(ChatOk \/ ChatFail)
    /\ WF_vars(SrvSaveAssistant \/ SrvStreamFail)
    /\ WF_vars(SrvEmitDone)
    \* a read is not held up by the other requests of the page: the cap on
    \* the requests in flight must not starve it
    /\ SF_vars(\E n \in {FirstFrameLen(wire)} : ReadChunk(n))
    /\ WF_vars(ReadEnd)
    /\ WF_vars(ReadFail)
    /\ WF_vars(\E f \in fetches : PreloadOk(f))

SpecLive == InitFail /\ [][NextLive]_vars /\ Returns

\* C35: every turn that was started leaves the streaming state and returns
\* the chat to idle, completed or errored, provided every store call returns
\* and the response stream ends or fails.
C35_Termination ==
    /\ (send.pc # "idle") ~> (send.pc = "idle")
    /\ isStreaming ~> ~isStreaming

\* a turn that streamed has ended and the chat is idle again
C35_Witness ==
    /\ send.pc = "idle" /\ ~isStreaming /\ showChat
    /\ chat.pc \in {"closed", "failed"} /\ chat.status = 200
    /\ Len(messages) >= 2

\* ---------------------------------------------------------------------------
\* C36: the pending highlight and the current highlight id are never both
\* set, also when the create response arrives after the user has confirmed
\* another selection or clicked an existing highlight.
C36_Exclusive ==
    ~(IsSome(pendingHighlight) /\ currentHighlightId # NoId)

\* the create response arrived after the user had confirmed another
\* selection: the popup is closed on a text that is not the one saved
C36_Witness ==
    /\ send.pc = "chatSent" /\ IsSome(send.pending) /\ IsSome(send.created)
    /\ currentHighlightId = The(send.created).id
    /\ ~showPopup /\ showChat
    /\ selectedText # "" /\ selectedText # The(send.pending).selectedText

\* ---------------------------------------------------------------------------
\* C37: while a turn is streaming the panel never replaces its message list
\* with the messages passed in from the highlight list: a list refresh or a
\* change of conversation id mid-stream leaves the user message and the
\* growing assistant message in place. After the turn has completed and the
\* refresh has arrived the panel shows the stored conversation, each message
\* of the turn once.
IsPrefix(s, t) == Len(s) <= Len(t) /\ SubSeq(t, 1, Len(s)) = s

C37_Grows(before, after) ==
    /\ Len(after) = Len(before)
    /\ \A k \in 1..(Len(before) - 1) : after[k] = before[k]
    /\ Len(before) > 0
          => /\ after[Len(after)].role = before[Len(before)].role
             /\ after[Len(after)].id = before[Len(before)].id
             /\ IsPrefix(before[Len(before)].content, after[Len(after)].content)

C37_Step ==
    (isStreaming /\ isStreaming' /\ send.pc # "idle" /\ send'.pc # "idle")
       => C37_Grows(messages, messages')

\* the turn on the open highlight has completed, it was stored in the
\* conversation of that highlight, and the list is up to date
C37_Settled ==
    /\ send.pc = "idle" /\ ~isStreaming /\ chat.pc = "closed"
    /\ wire = <<>> /\ fetches = {}
    /\ showChat /\ selectedPdf # NoPdf
    /\ currentHighlightId = chat.highlightId
    /\ currentConversationId = chat.conv
    /\ ConversationOf(chat.conv, chat.highlightId)
    /\ highlights = FindManyByPdf(selectedPdf)

C37_Once ==
    C37_Settled => messages = CurrentMessages(highlights, currentHighlightId)

C37_NoReplace == []C37_Once /\ [][C37_Step]_vars


\* ------------------------------------- shortcut prompts (page.tsx 385-430)
\* the keydown handler of the popup for a number key whose prompt is
\* configured: setInitialPrompt(prompt.trim()), then handleQueryClick(), which
\* returns at once when nothing is selected. The configured prompt is the
\* text UserText
ShortcutKey ==
    /\ showPopup
    /\ initialPrompt' = Some(UserText)
    /\ keyedSelection' =
          IF IsSome(selectionRanges)
          THEN Some(<<selectedText, The(selectionRanges).page>>) ELSE None
    /\ IF selectedText # "" /\ selectedPdf # NoPdf /\ IsSome(selectionRanges)
       THEN handleQueryClick
       ELSE UNCHANGED <<dbVars, homeVars, panelVars, flightVars, srvVars>>

\* the condition of the auto-send effect (ChatOverlay 119-120); the page hands
\* the panel a new onInitialPromptSent with every render, so the effect runs
\* after every render and the timer is set exactly while the condition holds
AutoSendDue ==
    /\ selectedPdf # NoPdf /\ showChat
    /\ IsSome(initialPrompt)
    /\ ~isStreaming /\ Len(messages) = 0
    /\ ~initialPromptSentRef

\* the timer of the auto-send effect fires (ChatOverlay 122-128):
\* handleSend(initialPrompt), the ref is set, onInitialPromptSent clears the
\* prompt of the page
AutoSend ==
    /\ AutoSendDue
    /\ handleSend(TRUE)
    /\ initialPrompt' = None
    /\ keyedSelection' = None

\* a session of selections, shortcut keys and sends; the provider is not
\* configured, so every chat request is answered 503
NextPrompt ==
    \/ Documents \/ Selection \/ ShortcutKey \/ AutoSend
    \/ Promotion \/ ChatFail

SpecPrompt == InitUndo /\ [][NextPrompt]_vars

\* the selection <<text, page>> a send of the panel is made for: the pending
\* highlight, or the current highlight of the list
C38_SentFor ==
    IF IsSome(pendingHighlight) /\ currentHighlightId = NoId
    THEN Some(<<The(pendingHighlight).selectedText,
                The(pendingHighlight).pageNumber>>)
    ELSE IF FindById(currentHighlightId, highlights) # 0
    THEN LET h == highlights[FindById(currentHighlightId, highlights)]
         IN  Some(<<h.selectedText, h.pageNumber>>)
    ELSE None

C38_Step == AutoSend => keyedSelection = C38_SentFor

\* C38: a prompt chosen with a number key is auto-sent only for the selection
\* that was active when the key was pressed, and once: every auto-send is made
\* for the selection of a key press whose prompt has not been sent before
C38_KeyedSend == [][C38_Step]_vars

\* the texts of a list, one after the other
RECURSIVE C39_Concat(_)
C39_Concat(texts) ==
    IF texts = <<>> THEN <<>> ELSE Head(texts) \o C39_Concat(Tail(texts))

\* what a reader of the whole response body gets from its text-delta frames
C39_Emitted == C39_Concat(HandleChunk(wire).texts)

\* C39: the content of the assistant message stored for a completed turn is
\* the concatenation, in the order of emission, of the texts of the
\* text-delta frames of the response
C39_Content ==
    C10_DoneEmitted
    => /\ \E a \in C10_Turn : a.role = "assistant"
       /\ \A a \in C10_Turn : a.role = "assistant" => a.content = C39_Emitted

\* a turn of two deltas has completed
C39_Witness ==
    /\ C10_DoneEmitted /\ chat.pc = "closed" /\ chat.n = 2
    /\ C39_Emitted = ProviderChunk(1) \o ProviderChunk(2)
    /\ \E a \in C10_Turn : a.role = "assistant" /\ a.content = C39_Emitted

\* ---------------------------------------------------------------------------
\* a turn on one highlight while the user moves between highlights: an earlier
\* session left highlight 1 with a conversation of two turns and highlight 2
\* with none; the list is loaded, the panel is open on highlight 2 and its
\* first message has just been sent (handleSend up to the fetch of /api/chat:
\* the route has created conversation 2 and stored the user message)
SecondHighlight == [id |-> 2, pdfId |-> "p1", pageNumber |-> 2,
                    selectedText |-> "A", createdAt |-> 2]
TwoTurns ==
    StoredMessages \cup
    {[id |-> 3, conversationId |-> 1, role |-> "user", content |-> UserText,
      createdAt |-> 3],
     [id |-> 4, conversationId |-> 1, role |-> "assistant",
      content |-> ProviderChunk(1), createdAt |-> 4]}

InitSwitch ==
    /\ dbHighlights = {StoredHighlight, SecondHighlight}
    /\ dbConversations = {StoredConversation,
                          [id |-> 2, highlightId |-> 2, createdAt |-> 2]}
    /\ dbMessages = TwoTurns \cup
          {[id |-> 5, conversationId |-> 2, role |-> "user",
            content |-> UserText, createdAt |-> 5]}
    /\ nextH = 3 /\ nextC = 3 /\ nextM = 6
    /\ pdfs = {"p1"} /\ InitViewer /\ selectedPdf = "p1"
    /\ highlights = <<IncludeConversation(StoredHighlight, {StoredConversation},
                                           TwoTurns),
                      IncludeConversation(SecondHighlight, {}, {})>>
    /\ selectedText = "A" /\ selectionRanges = None
    /\ showPopup = FALSE /\ showChat = TRUE
    /\ currentHighlightId = 2 /\ currentConversationId = NoId
    /\ pendingHighlight = None /\ deletedHighlight = None /\ error = ""
    /\ initialPrompt = None /\ keyedSelection = None
    /\ messages = <<UserMessage(UserText), Placeholder>>
    /\ isStreaming = TRUE /\ prevConversationIdRef = NoId
    /\ initialPromptSentRef = FALSE
    /\ isUserScrolledUp = FALSE /\ showNewMessageButton = FALSE
    /\ wasStreamingRef = TRUE /\ scrollTop = MaxScrollTop(messages)
    /\ fetches = {} /\ del = None /\ undo = None
    /\ send = [IdleSend EXCEPT !.pc = "chatSent", !.highlightId = 2,
                               !.pdf = "p1"]
    /\ chat = [IdleChat EXCEPT !.pc = "streaming", !.highlightId = 2,
                               !.message = UserText, !.status = 200, !.conv = 2]
    /\ wire = <<>> /\ wireEnd = "open" /\ geminiApiKey = TRUE

NextSwitch ==
    \/ TextSelect("A", 2) \/ QueryClick
    \/ \E id \in 1..MaxHighlights : HighlightClick(id)
    \/ Turn
    \/ \E f \in fetches : PreloadOk(f)

SpecSwitch == InitSwitch /\ [][NextSwitch]_vars

=============================================================================
